---------------------------- MODULE Spec2Model ----------------------------
(***************************************************************************)
(* Model of the catalog of music-server-1 (src/src/cdn/index.rs): the      *)
(* Index of artists, albums and songs and the operations that build it.    *)
(*                                                                         *)
(* Representation.                                                         *)
(*   String          a sequence of characters, each character a one-       *)
(*                   character TLA+ string ("B", "e", "-").  The scalar    *)
(*                   U+00E9 is written "e_acute": one element, not ASCII.  *)
(*   Option<T>       None is << >>, Some(x) is << x >>.                    *)
(*   PathBuf         the sequence of the path's components (each a String).*)
(*   HashMap<K, V>   a function whose DOMAIN is the set of keys.           *)
(*   Arc<RwLock<Song>>   an index into the sequence songs (the heap of     *)
(*                   every Song object created, in creation order).        *)
(*   Arc<RwLock<Album>>  the key of the album in index.albums (albums are  *)
(*                   created only by get_or_insert_album, under their own  *)
(*                   unique_name, and never removed).                      *)
(***************************************************************************)
EXTENDS Integers, Sequences, FiniteSets, TLC

VARIABLES
    base_dir,   \* the base_dir given to Index::index (199): config.base_dir
    artists,    \* Index.artists : unique_name -> Artist
    albums,     \* Index.albums  : unique_name -> Album
    songs,      \* heap of the Song objects created by insert_song
    resolved,   \* the ArtistRefs filled in by the loop of insert_song
                \* (index.rs 392-394), one per get_or_insert_artist call
    rate_path,  \* the path given to rate_cover
    rate_value, \* the Result of rate_cover: None before the call
    metadata,   \* the values of the track tag that Song::parse found in the
                \* file probed last: of the format first, then of the streams
    pc,         \* where the process is: in the loop over walked ("walk"),
                \* ..., or "failed" when Index::index returned an Err
    walked,     \* the entries of walked (224-231) taken by the loop so far
    walk_dir,   \* the directory whose entries walkdir is yielding
    previous_parent,        \* let mut previous_parent (217)
    previous_song_parent,   \* let mut previous_song_parent (218)
    previous_album,         \* let mut previous_album (219)
    found_covers,           \* let mut found_covers (220)
    artist_list,    \* Index.artist_list: the artists (their keys), in order
    album_list,     \* Index.album_list: the albums (their keys), in order
    gen_index,      \* position of "for album in index.album_list.iter()"
    exit_code,      \* the status the process exited with: None while it runs
    lock_events,    \* per task, the acquisitions and releases of entity locks
                    \* that its current operation has still to perform
    held,           \* per task, the guards of entity locks it holds
    handling        \* per request, what the server is doing with it

\* The configuration, and the variables of rate_cover and of Song::parse on
\* their own.
rate_vars == <<base_dir, rate_path, rate_value, metadata>>
\* The variables that the operations of the catalog leave alone.
\* The local state of Index::index.
walk_vars == <<pc, walked, walk_dir, previous_parent, previous_song_parent,
               previous_album, found_covers>>
\* The lists of the Index, the cover generation pass and the process.
list_vars == <<artist_list, album_list, gen_index, exit_code>>
\* The RwLocks of the entities and the requests being handled.
lock_vars == <<lock_events, held, handling>>
run_vars == <<rate_vars, walk_vars, list_vars, lock_vars>>

vars == <<artists, albums, songs, resolved, run_vars>>

---------------------------------------------------------------------------
(* Bounds of the model.                                                    *)

MaxArtistCalls == 4
MaxSongs == 3
MaxNameParts == 3
MaxEntries == 6
MaxRequests == 2
MaxFiles == 2

\* The tasks that take entity locks: the indexing task and the requests.
Indexer == 0
Requests == 1..MaxRequests
Tasks == {Indexer} \cup Requests

---------------------------------------------------------------------------
(* Characters and strings.                                                 *)

Upper == <<"A","B","C","D","E","F","G","H","I","J","K","L","M",
           "N","O","P","Q","R","S","T","U","V","W","X","Y","Z">>
Lower == <<"a","b","c","d","e","f","g","h","i","j","k","l","m",
           "n","o","p","q","r","s","t","u","v","w","x","y","z">>
Digit == <<"0","1","2","3","4","5","6","7","8","9">>

UpperSet == {Upper[i] : i \in 1..26}
AlnumSet == UpperSet \cup {Lower[i] : i \in 1..26} \cup {Digit[i] : i \in 1..10}
LowerOf == [c \in UpperSet |-> Lower[CHOOSE i \in 1..26 : Upper[i] = c]]

\* str::to_ascii_lowercase
to_ascii_lowercase(s) ==
    [i \in 1..Len(s) |-> IF s[i] \in UpperSet THEN LowerOf[s[i]] ELSE s[i]]

\* s.replace(|c| !(c in 'A'..='Z' || c in 'a'..='z' || c in '0'..='9'), "-")
replace_non_alnum(s) ==
    [i \in 1..Len(s) |-> IF s[i] \in AlnumSet THEN s[i] ELSE "-"]

\* Mutant: sanitize without the replacement of the other characters.
sanitize_no_replace(s) == to_ascii_lowercase(s)

\* sanitize: every char outside [A-Za-z0-9] becomes "-", then the result
\* is lowercased.
sanitize(s) == to_ascii_lowercase(replace_non_alnum(s))

\* Display of a u32 by format!("{}"): its decimal digits.
RECURSIVE Decimal(_)
Decimal(n) ==
    IF n < 10 THEN <<Digit[n + 1]>>
    ELSE Decimal(n \div 10) \o <<Digit[(n % 10) + 1]>>

\* format!("{}-{}", unique_name, index)
Suffixed(unique_name, index) == unique_name \o <<"-">> \o Decimal(index)

None == << >>
Some(x) == <<x>>

\* HashMap::insert
MapInsert(f, k, v) == [x \in DOMAIN f \cup {k} |-> IF x = k THEN v ELSE f[x]]

---------------------------------------------------------------------------
(* Index::get_or_insert_artist                                             *)

NewArtist(name, unique_name) ==
    [name |-> name, unique_name |-> unique_name,
     albums |-> << >>, cover_url |-> None]

\* Mutant: the probe loop does not compare display names.
RECURSIVE ProbeArtistNoNameTest(_, _, _, _, _)
ProbeArtistNoNameTest(arts, unique_name, name, index, found_name) ==
    IF found_name \in DOMAIN arts
    THEN ProbeArtistNoNameTest(arts, unique_name, name, index + 1,
                               Suffixed(unique_name, index + 1))
    ELSE [found |-> FALSE, key |-> found_name]

\* The while loop (559-571), entered with found_name = unique_name-index:
\* the result is the unique_name of the artist of that display name found,
\* or the first unset key.
RECURSIVE ProbeArtist(_, _, _, _, _)
ProbeArtist(arts, unique_name, name, index, found_name) ==
    IF found_name \in DOMAIN arts
    THEN IF arts[found_name].name = name
         THEN [found |-> TRUE, key |-> arts[found_name].unique_name]
         ELSE ProbeArtist(arts, unique_name, name, index + 1,
                          Suffixed(unique_name, index + 1))
    ELSE [found |-> FALSE, key |-> found_name]

\* Mutant: a new artist gets the number of the artists in the map as its
\* suffix.
LookupArtistCounting(arts, name, unique_name) ==
    IF \E k \in DOMAIN arts : arts[k].name = name
    THEN [found |-> TRUE, key |-> CHOOSE k \in DOMAIN arts : arts[k].name = name]
    ELSE [found |-> FALSE,
          key |-> Suffixed(unique_name, Cardinality(DOMAIN arts))]

\* Mutant: the probe starts at index 2 ("let mut index = 2u32").
LookupArtistFromTwo(arts, name, unique_name) ==
    IF unique_name \in DOMAIN arts
    THEN IF arts[unique_name].name = name
         THEN [found |-> TRUE, key |-> arts[unique_name].unique_name]
         ELSE ProbeArtist(arts, unique_name, name, 2, Suffixed(unique_name, 2))
    ELSE [found |-> FALSE, key |-> unique_name]

\* The lookup of get_or_insert_artist (547-573), unique_name = sanitize(name).
LookupArtist(arts, name, unique_name) ==
    IF unique_name \in DOMAIN arts
    THEN IF arts[unique_name].name = name
         THEN [found |-> TRUE, key |-> arts[unique_name].unique_name]
         ELSE ProbeArtist(arts, unique_name, name, 1, Suffixed(unique_name, 1))
    ELSE [found |-> FALSE, key |-> unique_name]

\* The end of get_or_insert_artist: the early returns (554, 566) when the
\* lookup l found the artist, the insertion (575-585) otherwise.
StoreArtist(arts, name, l) ==
    IF l.found
    THEN [artists |-> arts, unique_name |-> l.key]
    ELSE [artists |-> MapInsert(arts, l.key, NewArtist(name, l.key)),
          unique_name |-> l.key]

\* get_or_insert_artist(name): the new artists map and the returned
\* unique_name.
get_or_insert_artist(arts, name) ==
    StoreArtist(arts, name, LookupArtist(arts, name, sanitize(name)))

---------------------------------------------------------------------------
(* Paths and URLs.                                                         *)

\* Path::parent and Path::file_name.
parent(path) ==
    IF Len(path) = 0 THEN None ELSE Some(SubSeq(path, 1, Len(path) - 1))
file_name(path) ==
    IF Len(path) = 0 THEN None ELSE Some(path[Len(path)])

\* const FILES_URL: &str = "/cdn/files"
FILES_URL == <<"/","c","d","n","/","f","i","l","e","s">>

\* Path::strip_prefix
strip_prefix(path, base) ==
    IF Len(base) <= Len(path) /\ SubSeq(path, 1, Len(base)) = base
    THEN Some(SubSeq(path, Len(base) + 1, Len(path)))
    ELSE None

\* to_slash_lossy: the components joined by "/".
RECURSIVE to_slash(_)
to_slash(path) ==
    IF Len(path) = 0 THEN << >>
    ELSE IF Len(path) = 1 THEN path[1]
    ELSE path[1] \o <<"/">> \o to_slash(Tail(path))

\* PATH_SET: NON_ALPHANUMERIC without / - _ . +
Hex == <<"0","1","2","3","4","5","6","7","8","9","A","B","C","D","E","F">>
\* The ASCII codes of the punctuation that occurs in the file names.
ByteOf == (" " :> 32) @@ ("!" :> 33) @@ ("&" :> 38) @@ ("," :> 44)
NotInPathSet == AlnumSet \cup {"/", "-", "_", ".", "+"}
PercentEncoded(byte) == <<"%", Hex[(byte \div 16) + 1], Hex[(byte % 16) + 1]>>
RECURSIVE utf8_percent_encode(_)
utf8_percent_encode(str) ==
    IF Len(str) = 0 THEN << >>
    ELSE (IF Head(str) \in NotInPathSet
          THEN <<Head(str)>>
          ELSE PercentEncoded(ByteOf[Head(str)]))
         \o utf8_percent_encode(Tail(str))

\* The format! of find_url (804-808); stripped = None is the Err of
\* strip_prefix, passed on.
FormatUrl(stripped, files_url) ==
    IF stripped = None THEN None
    ELSE Some(files_url \o <<"/">> \o utf8_percent_encode(to_slash(stripped[1])))

\* find_url: None models Err.
find_url(path, base, files_url) == FormatUrl(strip_prefix(path, base), files_url)

\* str::contains
Contains(str, pat) ==
    \E i \in 1..(Len(str) - Len(pat) + 1) : SubSeq(str, i, i + Len(pat) - 1) = pat

cover_str == <<"c","o","v","e","r">>
small_str == <<"s","m","a","l","l">>

\* The rating of a file name (616-626).
RateName(name) ==
    1 + (IF Contains(name, cover_str) THEN 100 ELSE 0)
      + (IF Contains(name, small_str) THEN 20 ELSE 0)

\* Index::rate_cover, for a path that has a file name.
rate_cover(path) == RateName(file_name(path)[1])

---------------------------------------------------------------------------
(* Song::parse: the Song built from the metadata found in a file.          *)

ArtistRef(name, unique_name) == [name |-> name, unique_name |-> unique_name]

ParsedSong(title, album, artist_names, track, path, base, files_url) ==
    [name |-> title,
     unique_name |-> sanitize(title),
     album |-> [name |-> album, unique_name |-> << >>],
     artists |-> [i \in 1..Len(artist_names) |-> ArtistRef(artist_names[i], << >>)],
     track |-> track,
     cover_url |-> None,
     url |-> find_url(path, base, files_url)[1],
     path |-> path]

---------------------------------------------------------------------------
(* Index::get_or_insert_album                                              *)

NewAlbum(name, unique_name, artist_refs, path) ==
    [name |-> name, unique_name |-> unique_name, artists |-> artist_refs,
     songs |-> << >>, songs_by_name |-> << >>,
     cover_url |-> None, cover_rating |-> 0, tracked |-> FALSE, path |-> path]

\* Mutant: the probe loop does not compare display names.
RECURSIVE ProbeAlbumNoNameTest(_, _, _, _, _)
ProbeAlbumNoNameTest(albs, unique_name, name, index, found_name) ==
    IF found_name \in DOMAIN albs
    THEN ProbeAlbumNoNameTest(albs, unique_name, name, index + 1,
                              Suffixed(unique_name, index + 1))
    ELSE [found |-> FALSE, key |-> found_name]

\* The while loop (484-514), entered with found_name = unique_name-index.
RECURSIVE ProbeAlbum(_, _, _, _, _)
ProbeAlbum(albs, unique_name, name, index, found_name) ==
    IF found_name \in DOMAIN albs
    THEN IF albs[found_name].name = name
         THEN [found |-> TRUE, key |-> found_name]
         ELSE ProbeAlbum(albs, unique_name, name, index + 1,
                         Suffixed(unique_name, index + 1))
    ELSE [found |-> FALSE, key |-> found_name]

\* Mutant: an album matches when its name and its artists are the same.
LookupAlbumByArtists(albs, name, artist_refs, unique_name) ==
    IF \E k \in DOMAIN albs : albs[k].name = name /\ albs[k].artists = artist_refs
    THEN [found |-> TRUE,
          key |-> CHOOSE k \in DOMAIN albs :
                      albs[k].name = name /\ albs[k].artists = artist_refs]
    ELSE IF unique_name \in DOMAIN albs
         THEN [found |-> FALSE,
               key |-> Suffixed(unique_name,
                          CHOOSE i \in 1..(Cardinality(DOMAIN albs) + 1) :
                              /\ Suffixed(unique_name, i) \notin DOMAIN albs
                              /\ \A j \in 1..(i - 1) :
                                    Suffixed(unique_name, j) \in DOMAIN albs)]
         ELSE [found |-> FALSE, key |-> unique_name]

\* The lookup of get_or_insert_album (454-516), unique_name = sanitize(name):
\* equality is tested on the name only.
LookupAlbum(albs, name, artist_refs, unique_name) ==
    IF unique_name \in DOMAIN albs
    THEN IF albs[unique_name].name = name
         THEN [found |-> TRUE, key |-> unique_name]
         ELSE ProbeAlbum(albs, unique_name, name, 1, Suffixed(unique_name, 1))
    ELSE [found |-> FALSE, key |-> unique_name]

HasArtist(album, unique_name) ==
    \E i \in 1..Len(album.artists) : album.artists[i].unique_name = unique_name

\* Mutant: the incoming artists are pushed and linked without the test
\* that they are not attached yet.
RECURSIVE AttachArtistsAlways(_, _, _, _)
AttachArtistsAlways(arts, albs, key, artist_refs) ==
    IF Len(artist_refs) = 0
    THEN [artists |-> arts, albums |-> albs, key |-> key]
    ELSE AttachArtistsAlways(
             [arts EXCEPT ![Head(artist_refs).unique_name].albums =
                              MapInsert(@, key, key)],
             [albs EXCEPT ![key].artists = Append(@, Head(artist_refs))],
             key, Tail(artist_refs))

\* Mutant: an album found does not take the incoming artists.
AttachArtistsNever(arts, albs, key, artist_refs) ==
    [artists |-> arts, albums |-> albs, key |-> key]

\* "for artist_ref in artists" on an album found (461-477, 491-507): an
\* artist not attached yet is pushed onto the album's artists and the album
\* is inserted into that artist's albums under the key it was found at.
RECURSIVE AttachArtists(_, _, _, _)
AttachArtists(arts, albs, key, artist_refs) ==
    IF Len(artist_refs) = 0
    THEN [artists |-> arts, albums |-> albs, key |-> key]
    ELSE IF ~HasArtist(albs[key], Head(artist_refs).unique_name)
         THEN AttachArtists(
                  [arts EXCEPT ![Head(artist_refs).unique_name].albums =
                                   MapInsert(@, key, key)],
                  [albs EXCEPT ![key].artists = Append(@, Head(artist_refs))],
                  key, Tail(artist_refs))
         ELSE AttachArtists(arts, albs, key, Tail(artist_refs))

\* Mutant: only the first artist of a new album is linked to it.
LinkArtistsFirstOnly(arts, key, artist_refs) ==
    IF Len(artist_refs) = 0 THEN arts
    ELSE [arts EXCEPT ![Head(artist_refs).unique_name].albums =
                          MapInsert(@, key, key)]

\* "for artist_ref in artists" on a new album (531-539).
RECURSIVE LinkArtists(_, _, _)
LinkArtists(arts, key, artist_refs) ==
    IF Len(artist_refs) = 0 THEN arts
    ELSE LinkArtists(
             [arts EXCEPT ![Head(artist_refs).unique_name].albums =
                              MapInsert(@, key, key)],
             key, Tail(artist_refs))

\* The end of get_or_insert_album: the album found by the lookup l gets
\* the incoming artists and is returned (461-479, 491-509); otherwise a new
\* album is inserted and linked (518-541).
StoreAlbum(arts, albs, name, artist_refs, path, l) ==
    IF l.found
    THEN AttachArtists(arts, albs, l.key, artist_refs)
    ELSE [artists |-> LinkArtists(arts, l.key, artist_refs),
          albums |-> MapInsert(albs, l.key, NewAlbum(name, l.key, artist_refs, path)),
          key |-> l.key]

\* get_or_insert_album(name, artists, path): the new artists and albums
\* maps and the album returned (its key in index.albums).
get_or_insert_album(arts, albs, name, artist_refs, path) ==
    StoreAlbum(arts, albs, name, artist_refs, path,
               LookupAlbum(albs, name, artist_refs, sanitize(name)))

---------------------------------------------------------------------------
(* Index::insert_song                                                      *)

\* "for artist in song.artists.iter_mut()" (392-394): todo are the
\* references still to resolve, done those resolved.
RECURSIVE ResolveArtists(_, _, _)
ResolveNext(todo, done, r) ==
    ResolveArtists(r.artists, Tail(todo),
                   Append(done, ArtistRef(Head(todo).name, r.unique_name)))
ResolveArtists(arts, todo, done) ==
    IF Len(todo) = 0 THEN [artists |-> arts, refs |-> done]
    ELSE ResolveNext(todo, done, get_or_insert_artist(arts, Head(todo).name))

\* Vec::resize(new_len, None), called only to grow.
resize(seq, new_len) ==
    [i \in 1..new_len |-> IF i <= Len(seq) THEN seq[i] ELSE None]

\* Mutant: a tracked song is appended like an untracked one.
PlaceSongAppendOnly(album, song, id) ==
    [album EXCEPT !.tracked = IF song.track # None THEN TRUE ELSE @,
                  !.songs = Append(@, Some(id)),
                  !.songs_by_name = MapInsert(@, song.unique_name, id)]

\* Lines 413-443: the album after the song object id is stored in it.
PlaceSong(album, song, id) ==
    IF song.track # None
    THEN [album EXCEPT
            !.tracked = TRUE,
            !.songs = [(IF Len(@) <= song.track[1] - 1
                        THEN resize(@, song.track[1]) ELSE @)
                       EXCEPT ![song.track[1]] = Some(id)],
            !.songs_by_name = MapInsert(@, song.unique_name, id)]
    ELSE [album EXCEPT !.songs = Append(@, Some(id)),
                       !.songs_by_name = MapInsert(@, song.unique_name, id)]

\* Lines 407-411: the song takes the unique_name of the album and, if the
\* album has a cover, its cover_url.
SongOfAlbum(song, album) ==
    [song EXCEPT !.album.unique_name = album.unique_name,
                 !.cover_url = IF album.cover_url # None THEN album.cover_url ELSE @]

\* Lines 413-443 on the index: g is the result of get_or_insert_album.
StoreSong(heap, g, song) ==
    [artists |-> g.artists,
     albums |-> [g.albums EXCEPT ![g.key] = PlaceSong(@, song, Len(heap) + 1)],
     songs |-> Append(heap, song)]

\* Lines 407-443.
InsertIntoAlbum(heap, g, song) ==
    StoreSong(heap, g, SongOfAlbum(song, g.albums[g.key]))

\* Lines 396-443: r is the result of the loop over song.artists.
InsertResolved(albs, heap, song, r) ==
    InsertIntoAlbum(heap,
                    get_or_insert_album(r.artists, albs, song.album.name, r.refs,
                                        parent(song.path)[1]),
                    [song EXCEPT !.artists = r.refs])

\* insert_song(song), for a song whose path has a parent: the new artists
\* and albums maps and the new heap, whose last element is the Song stored.
insert_song(arts, albs, heap, song) ==
    InsertResolved(albs, heap, song, ResolveArtists(arts, song.artists, << >>))

---------------------------------------------------------------------------
(* Index::insert_cover                                                     *)

\* The song objects held in the slots of album.songs.
SlotSongs(album) ==
    {album.songs[i][1] : i \in {j \in 1..Len(album.songs) : album.songs[j] # None}}

\* Lines 597-605: the album takes the cover and every song held in
\* album.songs takes its cover_url.
WithCover(album, heap, rating, cover_url) ==
    [ok |-> TRUE,
     album |-> [album EXCEPT !.cover_url = cover_url, !.cover_rating = rating],
     songs |-> [i \in 1..Len(heap) |->
                   IF i \in SlotSongs(album)
                   THEN [heap[i] EXCEPT !.cover_url = cover_url]
                   ELSE heap[i]]]

\* Mutant: a candidate of equal rating replaces the cover too.
ApplyCoverGe(album, heap, rating, cover_url) ==
    IF rating >= album.cover_rating
    THEN IF cover_url = None
         THEN [ok |-> FALSE, album |-> album, songs |-> heap]
         ELSE WithCover(album, heap, rating, cover_url)
    ELSE [ok |-> TRUE, album |-> album, songs |-> heap]

\* Lines 595-608, with the rating of the path and the result of find_url
\* (evaluated only under the test): ok is FALSE when find_url fails, and
\* nothing is changed then.
ApplyCover(album, heap, rating, cover_url) ==
    IF rating > album.cover_rating
    THEN IF cover_url = None
         THEN [ok |-> FALSE, album |-> album, songs |-> heap]
         ELSE WithCover(album, heap, rating, cover_url)
    ELSE [ok |-> TRUE, album |-> album, songs |-> heap]

\* insert_cover(album, path, base, files_url), for a path with a file name.
insert_cover(album, heap, path, base, files_url) ==
    ApplyCover(album, heap, rate_cover(path), find_url(path, base, files_url))

---------------------------------------------------------------------------
(* Inputs: display names found in metadata.                                *)

Beyonce      == <<"B","e","y","o","n","c","e">>
BeyonceAcute == <<"B","e","y","o","n","c","e_acute">>
BEYONCE      == <<"B","E","Y","O","N","C","E">>
beyonce      == <<"b","e","y","o","n","c","e">>
Beyonce1     == <<"B","e","y","o","n","c","e"," ","1">>

ArtistNames == {Beyonce, BeyonceAcute, BEYONCE, beyonce, Beyonce1}

\* The configured base directory: a music directory, or the root of the
\* file system, which is the path without components and has no parent.
\* Then the directory walked, and the n-th media file found in it.
MusicDir == << <<"m">> >>
RootDir == << >>
DirD == <<"d">>
SongPath(dir, n) == base_dir \o <<dir, <<"s">> \o Decimal(n)>>

\* Metadata of the media files: titles, album names (AlbumM and AlbumMUpper
\* share the slug "m", AlbumM1 has the slug "m-1"), artist lists (ArtistA
\* and ArtistAUpper share the slug "a") and track numbers.
TitleX == <<"x">>
TitleY == <<"y">>
Titles == {TitleX, TitleY}
AlbumM == <<"m">>
AlbumMUpper == <<"M">>
AlbumM1 == <<"m"," ","1">>
AlbumNames == {AlbumM, AlbumMUpper, AlbumM1}
ArtistA == <<"a">>
ArtistAUpper == <<"A">>
ArtistLists == {<<ArtistA>>, <<ArtistAUpper>>, <<ArtistA, ArtistAUpper>>,
                <<ArtistAUpper, ArtistAUpper>>}
Tracks == {None, Some(1), Some(2)}

\* Cover files of the directory: ratings 1, 101 and 101.
CoverFiles == { <<"a","r","t">>, <<"c","o","v","e","r">>,
                <<"c","o","v","e","r"," ","2">> }
CoverPaths == {base_dir \o <<DirD, f>> : f \in CoverFiles}

---------------------------------------------------------------------------
(* State machine.                                                          *)

\* The locals of Index::index when the loop over walked begins (216-220).
InitWalk ==
    /\ pc = "walk"
    /\ walked = << >>
    /\ walk_dir = << >>
    /\ previous_parent = None
    /\ previous_song_parent = None
    /\ previous_album = None
    /\ found_covers = << >>
    /\ artist_list = << >>
    /\ album_list = << >>
    /\ gen_index = 1
    /\ exit_code = None
    /\ lock_events = [t \in Tasks |-> << >>]
    /\ held = [t \in Tasks |-> {}]
    /\ handling = [r \in Requests |-> "idle"]

Init ==
    /\ artists = << >>
    /\ albums = << >>
    /\ songs = << >>
    /\ resolved = << >>
    /\ base_dir = MusicDir
    /\ rate_path = << >>
    /\ rate_value = None
    /\ metadata = << >>
    /\ InitWalk

\* One iteration of "for artist in song.artists.iter_mut()" (392-394).
ResolveArtist(name) ==
    /\ Len(resolved) < MaxArtistCalls
    /\ \E r \in {get_or_insert_artist(artists, name)} :
          /\ artists' = r.artists
          /\ resolved' = Append(resolved, ArtistRef(name, r.unique_name))
    /\ UNCHANGED <<albums, songs, run_vars>>

NextArtist == \E name \in ArtistNames : ResolveArtist(name)

SpecArtist == Init /\ [][NextArtist]_vars

\* A call of insert_song with the Song parsed from the next media file.
InsertSongCall(title, album, artist_names, track, dir) ==
    /\ Len(songs) < MaxSongs
    /\ parent(SongPath(dir, Len(songs) + 1)) # None
    /\ \E r \in {insert_song(artists, albums, songs,
                              ParsedSong(title, album, artist_names, track,
                                         SongPath(dir, Len(songs) + 1),
                                         base_dir, FILES_URL))} :
          /\ artists' = r.artists
          /\ albums' = r.albums
          /\ songs' = r.songs
    /\ UNCHANGED <<resolved, rate_vars, walk_vars, list_vars>>

\* insert_song as one step.
InsertSong(title, album, artist_names, track, dir) ==
    InsertSongCall(title, album, artist_names, track, dir) /\ UNCHANGED lock_vars

\* A call of insert_cover on an album with a cover file of a directory that
\* holds one of the album's songs (index.rs 267-274, 287-294).
InsertCoverCall(key, path) ==
    /\ key \in DOMAIN albums
    /\ \E id \in 1..Len(songs) :
          /\ songs[id].album.unique_name = key
          /\ parent(songs[id].path) = parent(path)
    /\ file_name(path) # None
    /\ \E r \in {insert_cover(albums[key], songs, path, base_dir, FILES_URL)} :
          /\ r.ok
          /\ albums' = [albums EXCEPT ![key] = r.album]
          /\ songs' = r.songs
    /\ UNCHANGED <<artists, resolved, rate_vars, walk_vars, list_vars>>

\* insert_cover as one step.
InsertCover(key, path) == InsertCoverCall(key, path) /\ UNCHANGED lock_vars

\* Songs of several albums and artist lists, without track numbers.
NextAlbum ==
    \E album \in AlbumNames, artist_names \in ArtistLists :
        InsertSong(TitleX, album, artist_names, None, DirD)

SpecAlbum == Init /\ [][NextAlbum]_vars

\* Songs of one artist with and without track numbers, and cover files.
TrackSong ==
    \/ \E title \in Titles, track \in Tracks :
          InsertSong(title, AlbumM, <<ArtistA>>, track, DirD)
    \/ InsertSong(TitleX, AlbumMUpper, <<ArtistA>>, Some(1), DirD)
CoverFile ==
    \E key \in DOMAIN albums, path \in CoverPaths : InsertCover(key, path)

NextTrack == TrackSong \/ CoverFile

SpecTrack == Init /\ [][NextTrack]_vars

\* rate_cover on its own: the file names are made of at most MaxNameParts
\* of the parts below, and the file lies in the directory DirD.
NameParts == { <<"c","o","v","e","r">>, <<"s","m","a","l","l">>,
               <<"C","o","v","e","r">>, <<"a","r","t">>, <<"-">> }
RECURSIVE Concat(_)
Concat(parts) ==
    IF Len(parts) = 0 THEN << >> ELSE Head(parts) \o Concat(Tail(parts))
PartLists == UNION {[1..n -> NameParts] : n \in 1..MaxNameParts}
RatedNames == {Concat(parts) : parts \in PartLists}

InitRate ==
    /\ artists = << >>
    /\ albums = << >>
    /\ songs = << >>
    /\ resolved = << >>
    /\ base_dir = MusicDir
    /\ rate_path \in {base_dir \o <<DirD, name>> : name \in RatedNames}
    /\ rate_value = None
    /\ metadata = << >>
    /\ InitWalk

\* let rating = Index::rate_cover(&path)?  (594)
RateCover ==
    /\ rate_value = None
    /\ file_name(rate_path) # None
    /\ rate_value' = Some(rate_cover(rate_path))
    /\ UNCHANGED <<artists, albums, songs, resolved, base_dir, rate_path, metadata,
                   walk_vars, list_vars, lock_vars>>

SpecRate == InitRate /\ [][RateCover]_vars

---------------------------------------------------------------------------
(* Claims about get_or_insert_artist, checked under SpecArtist.            *)

\* The step just taken was a call of get_or_insert_artist.
ArtistCalled == Len(resolved') = Len(resolved) + 1
\* The ArtistRef that call produced: its argument and its return value.
ThisCall == resolved'[Len(resolved')]

\* The first call made with display name n.
FirstCall(n) ==
    CHOOSE i \in 1..Len(resolved) :
        /\ resolved[i].name = n
        /\ \A j \in 1..(i - 1) : resolved[j].name # n

\* C1: a call of get_or_insert_artist with a display name that an earlier
\* call already inserted returns the unique_name the first call with that
\* name returned and leaves the artists map unchanged.
C1_IdempotentReinsertion ==
    [][ (ArtistCalled /\ \E i \in 1..Len(resolved) : resolved[i].name = ThisCall.name)
        => /\ ThisCall.unique_name = resolved[FirstCall(ThisCall.name)].unique_name
           /\ artists' = artists ]_vars

\* C1 witness: a name that received a suffixed unique_name was inserted
\* again.
C1_Witness ==
    \E i, j \in 1..Len(resolved) :
        /\ i < j
        /\ resolved[i].name = resolved[j].name
        /\ resolved[i].unique_name # sanitize(resolved[i].name)

\* The smallest k >= 1 such that slug-k is not in keys.
SmallestFree(keys, slug) ==
    CHOOSE k \in 1..(Cardinality(keys) + 1) :
        /\ Suffixed(slug, k) \notin keys
        /\ \A m \in 1..(k - 1) : Suffixed(slug, m) \in keys

\* A new display name whose slug is occupied by another display name
\* receives slug-k for the smallest free k.
SmallestFreeSuffix ==
    (/\ ArtistCalled
     /\ \A k \in DOMAIN artists : artists[k].name # ThisCall.name
     /\ sanitize(ThisCall.name) \in DOMAIN artists)
    => /\ ThisCall.unique_name =
              Suffixed(sanitize(ThisCall.name),
                       SmallestFree(DOMAIN artists, sanitize(ThisCall.name)))
       /\ DOMAIN artists' = DOMAIN artists \cup {ThisCall.unique_name}
       /\ artists'[ThisCall.unique_name].name = ThisCall.name

\* The calls that introduced a display name of the given slug, in order.
Introductions(slug) ==
    {i \in 1..Len(resolved) :
        /\ sanitize(resolved[i].name) = slug
        /\ \A j \in 1..(i - 1) : resolved[j].name # resolved[i].name}
Rank(I, i) == Cardinality({j \in I : j < i})
ExpectedKey(slug, rank) == IF rank = 0 THEN slug ELSE Suffixed(slug, rank)
Slugs == {sanitize(resolved[i].name) : i \in 1..Len(resolved)}

\* The first, second and third distinct names sharing a slug received
\* slug, slug-1 and slug-2.
InOrderSuffixes(slug) ==
    LET I == Introductions(slug) IN
    \A i \in I :
        Rank(I, i) <= 2 => resolved[i].unique_name = ExpectedKey(slug, Rank(I, i))

\* No artist stored under slug, slug-1 or slug-2 has a display name that
\* sanitizes to another slug.
NoForeignOccupant(slug) ==
    \A r \in 0..2 :
        ExpectedKey(slug, r) \in DOMAIN artists =>
            sanitize(artists[ExpectedKey(slug, r)].name) = slug

\* C2 as stated: smallest free suffix, and therefore slug, slug-1, slug-2
\* for the first three distinct names sharing a slug.
C2_Original ==
    [][ SmallestFreeSuffix /\ (\A slug \in Slugs : InOrderSuffixes(slug))' ]_vars

\* C2 amended: a new name whose slug is occupied by a different name gets
\* slug-k for the smallest k >= 1 with slug-k not a key; the first three
\* distinct names sharing a slug receive slug, slug-1, slug-2 provided none
\* of these keys is held by an artist whose name has a different slug.
C2_SmallestFreeSuffix ==
    [][ SmallestFreeSuffix
        /\ (\A slug \in Slugs : NoForeignOccupant(slug) => InOrderSuffixes(slug))'
      ]_vars

\* C2 witness: three distinct names sharing a slug were inserted and the
\* third received slug-2.
C2_Witness ==
    \E slug \in Slugs :
        /\ Cardinality(Introductions(slug)) >= 3
        /\ NoForeignOccupant(slug)
        /\ \E i \in Introductions(slug) :
              /\ Rank(Introductions(slug), i) = 2
              /\ resolved[i].unique_name = Suffixed(slug, 2)

beyonce_1 == <<"b","e","y","o","n","c","e","-","1">>
beyonc_   == <<"b","e","y","o","n","c","-">>

BeyonceThenAcute ==
    /\ Len(resolved) >= 2
    /\ resolved[1].name = Beyonce
    /\ resolved[2].name = BeyonceAcute

\* C3 as stated: "Beyonce" then "Beyonce-acute" into an empty catalog
\* yield the unique_names "beyonce" and "beyonce-1".
C3_Original ==
    BeyonceThenAcute =>
        /\ resolved[1].unique_name = beyonce
        /\ resolved[2].unique_name = beyonce_1

\* C3 amended: "Beyonce" then "Beyonce-acute" into an empty catalog yield
\* two distinct artists whose unique_names are "beyonce" and "beyonc-": the
\* accented letter is outside [A-Za-z0-9] and becomes "-", so the two names
\* do not share a slug.
C3_BeyonceSlugs ==
    BeyonceThenAcute =>
        /\ resolved[1].unique_name = beyonce
        /\ resolved[2].unique_name = beyonc_
        /\ {beyonce, beyonc_} \subseteq DOMAIN artists
        /\ artists[beyonce].name = Beyonce
        /\ artists[beyonc_].name = BeyonceAcute

\* C3 witness: exactly these two insertions were made.
C3_Witness ==
    /\ Len(resolved) = 2
    /\ BeyonceThenAcute
    /\ Cardinality(DOMAIN artists) = 2

---------------------------------------------------------------------------
(* Claims about get_or_insert_album, checked under SpecAlbum.              *)

\* The step just taken was a call of insert_song; NewSong is the Song it
\* stored: NewSong.album holds the album name passed to get_or_insert_album
\* and the unique_name of the album returned, NewSong.artists the artist
\* list passed.
SongInserted == Len(songs') = Len(songs) + 1
NewSong == songs'[Len(songs')]

\* The keys of the albums whose display name is n.
AlbumsNamed(albs, n) == {k \in DOMAIN albs : albs[k].name = n}

\* C4: get_or_insert_album matches on the display name only. Called with a
\* name already in the catalog it returns the existing album of that name,
\* whatever the artist list, and adds no key to the albums map; a new name
\* whose slug is occupied gets slug-k for the smallest free k >= 1.
C4_AlbumMatchedByName ==
    [][ SongInserted =>
        LET name == NewSong.album.name
            key  == NewSong.album.unique_name
            slug == sanitize(name)
        IN  /\ AlbumsNamed(albums, name) # {} =>
                 /\ AlbumsNamed(albums, name) = {key}
                 /\ DOMAIN albums' = DOMAIN albums
                 /\ Len(songs') \in SlotSongs(albums'[key])
            /\ (AlbumsNamed(albums, name) = {} /\ slug \in DOMAIN albums) =>
                 /\ key = Suffixed(slug, SmallestFree(DOMAIN albums, slug))
                 /\ DOMAIN albums' = DOMAIN albums \cup {key}
                 /\ albums'[key].name = name
            /\ (AlbumsNamed(albums, name) = {} /\ slug \notin DOMAIN albums) =>
                 /\ key = slug
                 /\ DOMAIN albums' = DOMAIN albums \cup {key}
                 /\ albums'[key].name = name
      ]_vars

\* C4 witness: two songs of the same album name with different artist
\* lists are in one album, which is stored under a suffixed key.
C4_Witness ==
    /\ \E i, j \in 1..Len(songs) :
          /\ i < j
          /\ songs[i].album.name = songs[j].album.name
          /\ songs[i].artists # songs[j].artists
          /\ songs[i].album.unique_name = songs[j].album.unique_name
          /\ songs[i].album.unique_name = Suffixed(sanitize(songs[i].album.name), 1)
          /\ Cardinality(DOMAIN albums) = 2

\* C5: when get_or_insert_album matches an existing album, the incoming
\* artists not yet attached are appended to the album's artists, once each
\* and in order, the album is inserted into the albums map of each of them
\* under the album's unique_name, and artists already attached are not
\* appended again.
C5_ArtistsAccreted ==
    [][ (SongInserted /\ AlbumsNamed(albums, NewSong.album.name) # {}) =>
        LET key      == NewSong.album.unique_name
            old      == albums[key].artists
            new      == albums'[key].artists
            incoming == NewSong.artists
            attached == {old[i].unique_name : i \in 1..Len(old)}
            fresh    == {i \in 1..Len(incoming) :
                            /\ incoming[i].unique_name \notin attached
                            /\ \A j \in 1..(i - 1) :
                                  incoming[j].unique_name # incoming[i].unique_name}
        IN  /\ Len(new) = Len(old) + Cardinality(fresh)
            /\ SubSeq(new, 1, Len(old)) = old
            /\ \A i \in fresh :
                  /\ new[Len(old) + Cardinality({j \in fresh : j <= i})] = incoming[i]
                  /\ key \in DOMAIN artists'[incoming[i].unique_name].albums
                  /\ artists'[incoming[i].unique_name].albums[key] = key
                  /\ albums'[key].unique_name = key
      ]_vars

\* C5 witness: an album stored under a suffixed key was matched by a later
\* song whose artist list brought an artist that was attached and linked.
C5_Witness ==
    \E i, j \in 1..Len(songs) :
        LET key == songs[i].album.unique_name IN
        /\ i < j
        /\ songs[j].album.unique_name = key
        /\ key # sanitize(songs[i].album.name)
        /\ albums[key].artists = songs[i].artists \o songs[j].artists
        /\ Len(songs[j].artists) = 1
        /\ key \in DOMAIN artists[songs[j].artists[1].unique_name].albums

---------------------------------------------------------------------------
(* Claims about insert_song and insert_cover, checked under SpecTrack.     *)

\* The songs (heap indices) inserted into the album stored under key.
InsertedInto(key) ==
    {id \in 1..Len(songs) : songs[id].album.unique_name = key}

\* The slots of the album that hold the song object id.
SlotsOf(key, id) ==
    {i \in 1..Len(albums[key].songs) : albums[key].songs[i] = Some(id)}

\* The slots of the album that hold a song with a track number.
TrackedSlots(key) ==
    {i \in 1..Len(albums[key].songs) :
        /\ albums[key].songs[i] # None
        /\ songs[albums[key].songs[i][1]].track # None}

\* C6: for every album and every track number t inserted into it, the
\* songs sequence has length >= t, slot t-1 (here: element t) holds the most
\* recently inserted song of track number t, and tracked is TRUE.
C6_TrackPlacement ==
    \A id \in 1..Len(songs) :
        songs[id].track # None =>
            LET key == songs[id].album.unique_name
                t   == songs[id].track[1]
                latest == CHOOSE x \in InsertedInto(key) :
                             /\ songs[x].track = Some(t)
                             /\ \A y \in InsertedInto(key) :
                                   songs[y].track = Some(t) => y <= x
            IN  /\ Len(albums[key].songs) >= t
                /\ albums[key].songs[t] = Some(latest)
                /\ albums[key].tracked

\* C6 witness: track 2 then track 1 were inserted into a new album, and a
\* third song with track 2 replaced the first.
C6_Witness ==
    /\ Len(songs) = 3
    /\ songs[1].track = Some(2)
    /\ songs[2].track = Some(1)
    /\ songs[3].track = Some(2)
    /\ \E key \in DOMAIN albums :
          /\ InsertedInto(key) = {1, 2, 3}
          /\ albums[key].songs = <<Some(2), Some(3)>>
          /\ albums[key].tracked

\* C7: every album's songs is a sparse track-indexed sequence: a non-empty
\* slot i (here: element i+1) holds a song of track number i+1, or an
\* untracked song that lies after every slot holding a tracked song.
C7_SparseTrackIndexed ==
    \A key \in DOMAIN albums :
        \A i \in 1..Len(albums[key].songs) :
            albums[key].songs[i] # None =>
                LET song == songs[albums[key].songs[i][1]] IN
                \/ song.track = Some(i)
                \/ /\ song.track = None
                   /\ \A j \in TrackedSlots(key) : j < i

\* C8: two songs without track number inserted into the same album, A
\* before B, are both in the album's songs with A before B, after every
\* tracked slot, in every later state.
C8_UntrackedAppendOrder ==
    \A key \in DOMAIN albums :
        \A a, b \in InsertedInto(key) :
            (a < b /\ songs[a].track = None /\ songs[b].track = None) =>
                /\ SlotsOf(key, a) # {}
                /\ SlotsOf(key, b) # {}
                /\ \A i \in SlotsOf(key, a), j \in SlotsOf(key, b) : i < j
                /\ \A i \in SlotsOf(key, a) \cup SlotsOf(key, b) :
                      \A t \in TrackedSlots(key) : t < i

\* C9: cover_rating never decreases, and a call of insert_cover changes the
\* album's cover_url and cover_rating if and only if the rating of the
\* candidate is strictly greater than the album's cover_rating.
C9_CoverMonotone ==
    [][ /\ \A key \in DOMAIN albums :
              albums'[key].cover_rating >= albums[key].cover_rating
        /\ \A key \in DOMAIN albums, path \in CoverPaths :
              InsertCover(key, path) =>
                  IF rate_cover(path) > albums[key].cover_rating
                  THEN /\ albums'[key].cover_rating = rate_cover(path)
                       /\ albums'[key].cover_url # albums[key].cover_url
                       /\ albums'[key].cover_url = find_url(path, base_dir, FILES_URL)
                  ELSE /\ albums'[key].cover_rating = albums[key].cover_rating
                       /\ albums'[key].cover_url = albums[key].cover_url
      ]_vars

cover_url_cover_2 == FILES_URL \o <<"/","d","/","c","o","v","e","r","%","2","0","2">>

\* C9 witness: insert_cover has given an album the cover "cover 2", rated
\* 101, and written it through to a song of the album.
C9_Witness ==
    \E key \in DOMAIN albums :
        /\ albums[key].cover_rating = 101
        /\ albums[key].cover_url = Some(cover_url_cover_2)
        /\ \E id \in SlotSongs(albums[key]) :
              songs[id].cover_url = Some(cover_url_cover_2)

\* The song objects reachable from the album: through songs and through
\* songs_by_name.
AlbumSongs(key) ==
    SlotSongs(albums[key])
    \cup {albums[key].songs_by_name[n] : n \in DOMAIN albums[key].songs_by_name}

\* C10: after every completed insert_song and insert_cover, every song of
\* an album (reachable through songs or through songs_by_name) has the
\* album's current cover_url.
C10_CoverSync ==
    \A key \in DOMAIN albums :
        \A id \in AlbumSongs(key) :
            songs[id].cover_url = albums[key].cover_url

---------------------------------------------------------------------------
(* Claims about rate_cover, checked under SpecRate.                        *)

RatedName == file_name(rate_path)[1]

\* C11: rate_cover returns 1 for a file name that contains neither "cover"
\* nor "small", 101 for one that contains "cover" but not "small", 121 for
\* one that contains both, and 1 for one that contains "small" without
\* "cover" (the +20 is granted only together with the +100).
C11_SmallOnlyWithCover ==
    rate_value # None =>
        rate_value[1] =
            IF Contains(RatedName, cover_str)
            THEN IF Contains(RatedName, small_str) THEN 121 ELSE 101
            ELSE 1

---------------------------------------------------------------------------
(* Index::index: the loop over the entries of the directory walk.          *)

\* paths_eq(p1, p2) on two Option<Path>.
paths_eq(p1, p2) ==
    IF p1 = None THEN p2 = None
    ELSE IF p2 = None THEN FALSE
    ELSE p1[1] = p2[1]

\* Mutant: the pending covers are kept when the directory changes.
ClearedCoversNever(covers, prev_parent, path) == covers

\* Lines 242-244: found_covers after the test on the parent of path.
ClearedCovers(covers, prev_parent, path) ==
    IF ~paths_eq(prev_parent, parent(path)) THEN << >> ELSE covers

\* "for cover in found_covers.drain(..)" (261-275) on the album key: ok is
\* FALSE when an insert_cover returned an Err.
RECURSIVE DrainCovers(_, _, _, _)
DrainNext(albs, heap, key, covers, r) ==
    IF r.ok
    THEN DrainCovers([albs EXCEPT ![key] = r.album], r.songs, key, Tail(covers))
    ELSE [ok |-> FALSE, albums |-> albs, songs |-> heap]
DrainCovers(albs, heap, key, covers) ==
    IF Len(covers) = 0
    THEN [ok |-> TRUE, albums |-> albs, songs |-> heap]
    ELSE DrainNext(albs, heap, key, covers,
                   insert_cover(albs[key], heap, Head(covers), base_dir, FILES_URL))

\* The directories of the tree walked: m/d, m/d/u and m/e.
DirU == <<"u">>
DirE == <<"e">>
WalkDirs == {base_dir \o <<DirD>>, base_dir \o <<DirD, DirU>>, base_dir \o <<DirE>>}
\* The n-th media file found, in the directory dir.
MediaPath(dir, n) == dir \o << <<"s">> \o Decimal(n) >>
\* Album names of the media files and names of the cover files of the walk.
WalkAlbums == {AlbumM, AlbumMUpper}
WalkCovers == { <<"a","r","t">>, <<"c","o","v","e","r">> }
\* A file that matches neither the media nor the cover patterns.
OtherFile == <<"t","x","t">>

\* An element of walked: Ok(dir) with its path and what the patterns and
\* the probe make of it, or Err.
Entry(kind, path) == [kind |-> kind, path |-> path]
WalkedPaths == {walked[i].path : i \in 1..Len(walked)}

IsPrefix(p, q) == Len(p) <= Len(q) /\ SubSeq(q, 1, Len(p)) = p

\* walkdir yields base_dir first, every path once, and the entries of a
\* directory after the directory and before it leaves the directory.
CanVisit(path) ==
    /\ pc = "walk"
    /\ Len(walked) < MaxEntries
    /\ path \notin WalkedPaths
    /\ IF Len(walked) = 0 THEN path = base_dir
       ELSE path # base_dir /\ IsPrefix(parent(path)[1], walk_dir)

\* The directories that walkdir can be yielding the entries of.
OpenDirs == {dir \in WalkDirs \cup {base_dir} : IsPrefix(dir, walk_dir) /\ Len(walked) > 0}

\* Mutant: the test on the parent of the path is missing when the entry
\* is neither a media file nor a cover file.
VisitOtherKeeping(path, is_dir) ==
    /\ CanVisit(path)
    /\ previous_parent' = parent(path)
    /\ walked' = Append(walked, Entry("other", path))
    /\ walk_dir' = IF is_dir THEN path ELSE parent(path)[1]
    /\ UNCHANGED <<artists, albums, songs, resolved, rate_vars, lock_vars, list_vars, pc,
                   previous_song_parent, previous_album, found_covers>>

\* Lines 242-245 and 300: an Ok entry that is neither a media file nor a
\* cover file; a directory is entered by walkdir.
VisitOther(path, is_dir) ==
    /\ CanVisit(path)
    /\ found_covers' = ClearedCovers(found_covers, previous_parent, path)
    /\ previous_parent' = parent(path)
    /\ walked' = Append(walked, Entry("other", path))
    /\ walk_dir' = IF is_dir THEN path ELSE parent(path)[1]
    /\ UNCHANGED <<artists, albums, songs, resolved, rate_vars, lock_vars, list_vars, pc,
                   previous_song_parent, previous_album>>

\* found_covers is drained on the album of the song just stored (255-275).
DrainOnSong(r, covers) ==
    DrainCovers(r.albums, r.songs, r.songs[Len(r.songs)].album.unique_name, covers)

\* Lines 242-275: a media file that Song::parse probes successfully.
VisitMedia(path, title, album, artist_names, track) ==
    /\ CanVisit(path)
    /\ \E r \in {insert_song(artists, albums, songs,
                             ParsedSong(title, album, artist_names, track,
                                        path, base_dir, FILES_URL))} :
          /\ artists' = r.artists
          /\ previous_album' = Some(r.songs[Len(r.songs)].album.unique_name)
          /\ \E f \in {DrainOnSong(r, ClearedCovers(found_covers,
                                                    previous_parent, path))} :
                /\ albums' = f.albums
                /\ songs' = f.songs
                /\ pc' = IF f.ok THEN "walk" ELSE "failed"
    /\ previous_parent' = parent(path)
    /\ previous_song_parent' = parent(path)
    /\ found_covers' = << >>
    /\ walked' = Append(walked, Entry("media", path))
    /\ walk_dir' = parent(path)[1]
    /\ UNCHANGED <<resolved, rate_vars, lock_vars, list_vars>>

\* Mutant: a media file whose probe fails is skipped.
VisitMediaFailSkipped(path) ==
    /\ CanVisit(path)
    /\ found_covers' = ClearedCovers(found_covers, previous_parent, path)
    /\ previous_parent' = parent(path)
    /\ walked' = Append(walked, Entry("unprobed", path))
    /\ walk_dir' = IF path = base_dir THEN path ELSE parent(path)[1]
    /\ UNCHANGED <<artists, albums, songs, resolved, rate_vars, lock_vars, list_vars, pc,
                   previous_song_parent, previous_album>>

\* Lines 242-250: a media file whose probe fails; the ? returns the Err.
VisitMediaFail(path) ==
    /\ CanVisit(path)
    /\ found_covers' = ClearedCovers(found_covers, previous_parent, path)
    /\ previous_parent' = parent(path)
    /\ pc' = "failed"
    /\ walked' = Append(walked, Entry("unprobed", path))
    /\ walk_dir' = IF path = base_dir THEN path ELSE parent(path)[1]
    /\ UNCHANGED <<artists, albums, songs, resolved, rate_vars, lock_vars, list_vars,
                   previous_song_parent, previous_album>>

\* Mutant: a cover file always goes to found_covers.
AttachCoverPending(albs, heap, prev_song_parent, prev_album, covers, path) ==
    /\ found_covers' = Append(covers, path)
    /\ UNCHANGED <<albums, songs, pc>>

\* Mutant: a cover file is attached to previous_album whatever its
\* directory.
AttachCoverAnywhere(albs, heap, prev_song_parent, prev_album, covers, path) ==
    IF prev_album # None
    THEN \E r \in {insert_cover(albs[prev_album[1]], heap, path,
                                base_dir, FILES_URL)} :
            /\ albums' = [albs EXCEPT ![prev_album[1]] = r.album]
            /\ songs' = r.songs
            /\ pc' = IF r.ok THEN "walk" ELSE "failed"
            /\ found_covers' = covers
    ELSE /\ found_covers' = Append(covers, path)
         /\ UNCHANGED <<albums, songs, pc>>

\* Lines 282-299: the cover file goes to previous_album when it lies in
\* the directory of the previous song, and to found_covers otherwise; the
\* expect of 283 panics.
AttachCover(albs, heap, prev_song_parent, prev_album, covers, path) ==
    IF paths_eq(prev_song_parent, parent(path))
    THEN IF prev_album = None
         THEN pc' = "panicked" /\ found_covers' = covers
              /\ UNCHANGED <<albums, songs>>
         ELSE \E r \in {insert_cover(albs[prev_album[1]], heap, path,
                                     base_dir, FILES_URL)} :
                 /\ albums' = [albs EXCEPT ![prev_album[1]] = r.album]
                 /\ songs' = r.songs
                 /\ pc' = IF r.ok THEN "walk" ELSE "failed"
                 /\ found_covers' = covers
    ELSE /\ found_covers' = Append(covers, path)
         /\ UNCHANGED <<albums, songs, pc>>

\* Lines 242-245 and 276-300: a path that the cover patterns match. It is a
\* file, or it is base_dir itself, which walkdir then enters. No path that
\* reaches rate_cover lacks a file name: the only such path is the root,
\* the first entry, and 282-285 stop the walk there.
VisitCover(path) ==
    /\ CanVisit(path)
    /\ AttachCover(albums, songs, previous_song_parent, previous_album,
                   ClearedCovers(found_covers, previous_parent, path), path)
    /\ previous_parent' = parent(path)
    /\ walked' = Append(walked, Entry("cover", path))
    /\ walk_dir' = IF path = base_dir THEN path ELSE parent(path)[1]
    /\ UNCHANGED <<artists, resolved, rate_vars, lock_vars, list_vars, previous_song_parent,
                   previous_album>>

\* Mutant: an Err entry is treated like the entry of a new directory.
VisitErrClearing ==
    /\ pc = "walk"
    /\ 0 < Len(walked) /\ Len(walked) < MaxEntries
    /\ walked' = Append(walked, Entry("err", << >>))
    /\ found_covers' = << >>
    /\ previous_parent' = None
    /\ UNCHANGED <<artists, albums, songs, resolved, rate_vars, lock_vars, list_vars, pc, walk_dir,
                   previous_song_parent, previous_album>>

\* Lines 302-311: an Err entry is logged and skipped.
VisitErr ==
    /\ pc = "walk"
    /\ 0 < Len(walked) /\ Len(walked) < MaxEntries
    /\ walked' = Append(walked, Entry("err", << >>))
    /\ UNCHANGED <<artists, albums, songs, resolved, rate_vars, lock_vars, list_vars, pc, walk_dir,
                   previous_parent, previous_song_parent, previous_album,
                   found_covers>>

\* One iteration of "for dir in walked" (234-313).
WalkEntry ==
    \/ VisitOther(base_dir, TRUE)
    \/ \E dir \in WalkDirs : VisitOther(dir, TRUE)
    \/ \E dir \in OpenDirs : VisitOther(dir \o <<OtherFile>>, FALSE)
    \/ \E dir \in OpenDirs, album \in WalkAlbums :
          VisitMedia(MediaPath(dir, Len(songs) + 1), TitleX, album,
                     <<ArtistA>>, None)
    \/ \E dir \in OpenDirs : VisitMediaFail(MediaPath(dir, 0))
    \/ \E dir \in OpenDirs, name \in WalkCovers : VisitCover(dir \o <<name>>)
    \/ VisitErr

SpecWalk == Init /\ [][WalkEntry]_vars

---------------------------------------------------------------------------
(* Claims about the directory walk, checked under SpecWalk.                *)

\* The step just taken processed an entry of walked; the entry processed.
EntryTaken == Len(walked') = Len(walked) + 1
ThisEntry == walked'[Len(walked')]

\* The songs stored for the album key.
SongsOfAlbum(key) == {id \in 1..Len(songs) : songs[id].album.unique_name = key}

\* The step processes a cover file that lies in the directory of the media
\* file processed just before it, whose album has no other song.
CoverRightAfterOnlySong ==
    /\ EntryTaken
    /\ ThisEntry.kind = "cover"
    /\ Len(walked) > 0
    /\ walked[Len(walked)].kind = "media"
    /\ parent(walked[Len(walked)].path) = parent(ThisEntry.path)
    /\ SongsOfAlbum(songs[Len(songs)].album.unique_name) = {Len(songs)}

\* The album of the song stored last.
LastAlbum == songs[Len(songs)].album.unique_name

\* C12 as stated: a cover file in the directory of an album's only song,
\* visited immediately after that song, becomes the album's cover.
C12_Original ==
    [][CoverRightAfterOnlySong =>
          albums'[LastAlbum].cover_url =
              find_url(ThisEntry.path, base_dir, FILES_URL)]_vars

\* C12 (amended): a cover file in the directory of an album's only song,
\* visited immediately after that song, becomes the album's cover when its
\* rating is greater than the album's cover_rating; otherwise the album is
\* left as it was.
C12_CoverAfterOnlySong ==
    [][CoverRightAfterOnlySong =>
          IF rate_cover(ThisEntry.path) > albums[LastAlbum].cover_rating
          THEN /\ albums'[LastAlbum].cover_url =
                      find_url(ThisEntry.path, base_dir, FILES_URL)
               /\ albums'[LastAlbum].cover_rating = rate_cover(ThisEntry.path)
               /\ songs'[Len(songs)].cover_url = albums'[LastAlbum].cover_url
          ELSE albums' = albums /\ songs' = songs]_vars

\* A cover file was processed right after the only song of its directory's
\* album and is the album's cover, in place of a cover found before the song.
C12_Witness ==
    /\ Len(walked) >= 4
    /\ walked[Len(walked)].kind = "cover"
    /\ walked[Len(walked) - 1].kind = "media"
    /\ walked[Len(walked) - 2].kind = "cover"
    /\ parent(walked[Len(walked) - 1].path) = parent(walked[Len(walked)].path)
    /\ parent(walked[Len(walked) - 2].path) = parent(walked[Len(walked)].path)
    /\ Len(songs) = 1
    /\ albums[LastAlbum].cover_url =
           find_url(walked[Len(walked)].path, base_dir, FILES_URL)
    /\ albums[LastAlbum].cover_rating = 101

\* The cover files taken from walked so far.
CoversWalked == {walked[i].path : i \in {j \in 1..Len(walked) : walked[j].kind = "cover"}}

\* The cover file path is the cover of the album key.
IsCoverOf(path, key) ==
    albums[key].cover_url = find_url(path, base_dir, FILES_URL)

\* C13: a cover file is attached to an album only if a song of that album
\* lies in the directory of the cover file; a cover file whose directory
\* holds no media file is attached to no album.
C13_CoverNeedsSongInDirectory ==
    \A key \in DOMAIN albums :
        albums[key].cover_url # None =>
            \E path \in CoversWalked :
                /\ IsCoverOf(path, key)
                /\ \E id \in SongsOfAlbum(key) :
                      parent(songs[id].path) = parent(path)

\* A cover file found before the songs of its directory was attached
\* through found_covers, after a cover file of a directory without media
\* files was dropped.
C13_Witness ==
    /\ \E i \in 1..Len(walked) :
          /\ walked[i].kind = "cover"
          /\ parent(walked[i].path) = Some(base_dir \o <<DirE>>)
    /\ \A id \in 1..Len(songs) :
          parent(songs[id].path) = Some(base_dir \o <<DirD>>)
    /\ \E key \in DOMAIN albums, i \in 1..Len(walked) :
          /\ walked[i].kind = "cover"
          /\ IsCoverOf(walked[i].path, key)
          /\ \E j \in (i + 1)..Len(walked) :
                /\ walked[j].kind = "media"
                /\ \A h \in 1..(j - 1) : walked[h].kind # "media"

\* C20: an Err entry of the walk is skipped: the catalog and previous_parent,
\* previous_song_parent, previous_album and found_covers are unchanged, and
\* the loop goes on with the next entry.
C20_ErrEntrySkipped ==
    [][(EntryTaken /\ ThisEntry.kind = "err") =>
          /\ UNCHANGED <<artists, albums, songs>>
          /\ UNCHANGED <<previous_parent, previous_song_parent,
                         previous_album, found_covers>>
          /\ pc' = "walk"]_vars

\* An Err entry was skipped while covers were pending, and the entry after
\* it, a media file, took the pending cover.
C20_Witness ==
    \E i \in 2..(Len(walked) - 1) :
        /\ walked[i].kind = "err"
        /\ walked[i - 1].kind = "cover"
        /\ walked[i + 1].kind = "media"
        /\ Len(songs) = 1
        /\ IsCoverOf(walked[i - 1].path, LastAlbum)

---------------------------------------------------------------------------
(* Index::index after the walk: the sorted lists and the generated covers; *)
(* run and main.                                                           *)

\* The bytes of the characters of a unique_name.
AsciiOf ==
    [c \in AlnumSet \cup {"-"} |->
        IF c = "-" THEN 45
        ELSE IF \E i \in 1..10 : Digit[i] = c
             THEN 47 + (CHOOSE i \in 1..10 : Digit[i] = c)
        ELSE IF c \in UpperSet
             THEN 64 + (CHOOSE i \in 1..26 : Upper[i] = c)
        ELSE 96 + (CHOOSE i \in 1..26 : Lower[i] = c)]

\* Mutant: the comparison is reversed.
RECURSIVE str_gt(_, _)
str_gt(a, b) ==
    IF Len(a) = 0 THEN FALSE
    ELSE IF Len(b) = 0 THEN TRUE
    ELSE IF Head(a) = Head(b) THEN str_gt(Tail(a), Tail(b))
    ELSE AsciiOf[Head(a)] > AsciiOf[Head(b)]

\* a < b for two Strings: the order of their bytes.
RECURSIVE str_lt(_, _)
str_lt(a, b) ==
    IF Len(b) = 0 THEN FALSE
    ELSE IF Len(a) = 0 THEN TRUE
    ELSE IF Head(a) = Head(b) THEN str_lt(Tail(a), Tail(b))
    ELSE AsciiOf[Head(a)] < AsciiOf[Head(b)]

\* HashMap::keys().collect(): the keys in some order.
RECURSIVE keys(_)
KeysFrom(set, key) == <<key>> \o keys(set \ {key})
keys(set) == IF set = {} THEN << >> ELSE KeysFrom(set, CHOOSE key \in set : TRUE)

\* Vec::sort on a Vec of Strings.
RECURSIVE sorted_insert(_, _)
sorted_insert(seq, x) ==
    IF Len(seq) = 0 THEN <<x>>
    ELSE IF str_lt(x, Head(seq)) THEN <<x>> \o seq
    ELSE <<Head(seq)>> \o sorted_insert(Tail(seq), x)
RECURSIVE sort(_)
sort(seq) ==
    IF Len(seq) = 0 THEN << >> ELSE sorted_insert(sort(Tail(seq)), Head(seq))

\* Lines 315-329: the loop over walked is over and the lists are filled.
SortLists ==
    /\ pc = "walk"
    /\ Len(walked) > 0
    /\ artist_list' = sort(keys(DOMAIN artists))
    /\ album_list' = sort(keys(DOMAIN albums))
    /\ pc' = "gen_covers"
    /\ gen_index' = 1
    /\ UNCHANGED <<artists, albums, songs, resolved, rate_vars, lock_vars, walked, walk_dir,
                   previous_parent, previous_song_parent, previous_album,
                   found_covers, exit_code>>

\* make_cover_path: the generated cover lies next to the song.
generated_suffix ==
    <<"-","m","s","1","-","c","o","v","e","r","-","s","m","a","l","l","-",
      "g","e","n","e","r","a","t","e","d",".","j","p","g">>
make_cover_path(song_path) ==
    parent(song_path)[1] \o <<file_name(song_path)[1] \o generated_suffix>>

\* The n-th media file found, in the directory dir, when it is a file with
\* a video stream (an embedded picture): files named v... have one, files
\* named s... have none.
VideoPath(dir, n) == dir \o << <<"v">> \o Decimal(n) >>

\* read_frame(song_path) is Ok(Some(frame)).
has_frame(song_path) == Head(file_name(song_path)[1]) = "v"

\* gen_cover: "for song in album.songs.iter()" from slot on, when no
\* step returns an Err.
RECURSIVE gen_cover_from(_, _, _)
gen_cover_from(album, heap, slot) ==
    IF slot > Len(album.songs) THEN None
    ELSE IF album.songs[slot] = None
         THEN gen_cover_from(album, heap, slot + 1)
    ELSE IF has_frame(heap[album.songs[slot][1]].path)
         THEN Some(make_cover_path(heap[album.songs[slot][1]].path))
    ELSE gen_cover_from(album, heap, slot + 1)
gen_cover(album, heap) == gen_cover_from(album, heap, 1)

\* The album that the cover generation loop is at.
GenAlbum == album_list[gen_index]
Generating == pc = "gen_covers" /\ gen_index <= Len(album_list)

\* Lines 360-379 for an album that has a cover, or for which gen_cover finds
\* no picture in any song.
GenCoverNone(has_cover) ==
    /\ Generating
    /\ has_cover = (albums[GenAlbum].cover_url # None)
    /\ ~has_cover => gen_cover(albums[GenAlbum], songs) = None
    /\ gen_index' = gen_index + 1
    /\ UNCHANGED <<artists, albums, songs, resolved, rate_vars, lock_vars, walk_vars,
                   artist_list, album_list, exit_code>>

\* Mutant: the test of line 361 is missing.
GenCoverFoundUnguarded ==
    /\ Generating
    /\ \E cover_path \in {gen_cover(albums[GenAlbum], songs)} :
          /\ cover_path # None
          /\ \E r \in {insert_cover(albums[GenAlbum], songs, cover_path[1],
                                    base_dir, FILES_URL)} :
                /\ albums' = [albums EXCEPT ![GenAlbum] = r.album]
                /\ songs' = r.songs
                /\ pc' = IF r.ok THEN "gen_covers" ELSE "failed"
    /\ gen_index' = gen_index + 1
    /\ UNCHANGED <<artists, resolved, rate_vars, lock_vars, walked, walk_dir,
                   previous_parent, previous_song_parent, previous_album,
                   found_covers, artist_list, album_list, exit_code>>

\* Lines 360-379 for an album without cover when gen_cover returns
\* Ok(Some(cover_path)): the picture of the first song that has one is
\* written to make_cover_path and inserted as the cover.
GenCoverFound ==
    /\ Generating
    /\ albums[GenAlbum].cover_url = None
    /\ \E cover_path \in {gen_cover(albums[GenAlbum], songs)} :
          /\ cover_path # None
          /\ \E r \in {insert_cover(albums[GenAlbum], songs, cover_path[1],
                                    base_dir, FILES_URL)} :
                /\ albums' = [albums EXCEPT ![GenAlbum] = r.album]
                /\ songs' = r.songs
                /\ pc' = IF r.ok THEN "gen_covers" ELSE "failed"
    /\ gen_index' = gen_index + 1
    /\ UNCHANGED <<artists, resolved, rate_vars, lock_vars, walked, walk_dir,
                   previous_parent, previous_song_parent, previous_album,
                   found_covers, artist_list, album_list, exit_code>>

\* Lines 365 and 637-662: gen_cover returns an Err (the file cannot be
\* opened or decoded, or the image cannot be written).
GenCoverFail ==
    /\ Generating
    /\ albums[GenAlbum].cover_url = None
    /\ SlotSongs(albums[GenAlbum]) # {}
    /\ pc' = "failed"
    /\ UNCHANGED <<artists, albums, songs, resolved, rate_vars, lock_vars, walked, walk_dir,
                   previous_parent, previous_song_parent, previous_album,
                   found_covers, list_vars>>

\* Line 388: Ok(index).
ReturnIndex ==
    /\ pc = "gen_covers"
    /\ gen_index > Len(album_list)
    /\ pc' = "indexed"
    /\ UNCHANGED <<artists, albums, songs, resolved, rate_vars, lock_vars, walked, walk_dir,
                   previous_parent, previous_song_parent, previous_album,
                   found_covers, list_vars>>

\* run (main.rs 48-78): the server is built on the Index and runs, or a
\* bind fails and run returns the Err.
StartServer(bound) ==
    /\ pc = "indexed"
    /\ pc' = IF bound THEN "serving" ELSE "failed"
    /\ UNCHANGED <<artists, albums, songs, resolved, rate_vars, lock_vars, walked, walk_dir,
                   previous_parent, previous_song_parent, previous_album,
                   found_covers, list_vars>>

\* Mutant: main logs the error and returns.
ExitOnErrZero ==
    /\ pc = "failed"
    /\ pc' = "exited"
    /\ exit_code' = Some(0)
    /\ UNCHANGED <<artists, albums, songs, resolved, rate_vars, lock_vars, walked, walk_dir,
                   previous_parent, previous_song_parent, previous_album,
                   found_covers, artist_list, album_list, gen_index>>

\* main (main.rs 86-89): the Err of run is logged and the process exits 1.
ExitOnErr ==
    /\ pc = "failed"
    /\ pc' = "exited"
    /\ exit_code' = Some(1)
    /\ UNCHANGED <<artists, albums, songs, resolved, rate_vars, lock_vars, walked, walk_dir,
                   previous_parent, previous_song_parent, previous_album,
                   found_covers, artist_list, album_list, gen_index>>

\* The media files of a run of the whole process lie in base_dir; their
\* artists are ArtistA, ArtistAUpper (same slug) or ArtistB.
ArtistB == <<"b">>
IndexArtists == {ArtistA, ArtistAUpper, ArtistB}
IndexEntry ==
    \/ VisitOther(base_dir, TRUE)
    \/ \E album \in WalkAlbums, artist \in IndexArtists :
          /\ Len(songs) < MaxSongs
          /\ VisitMedia(MediaPath(base_dir, Len(songs) + 1), TitleX, album,
                        <<artist>>, None)
    \/ /\ Len(songs) < MaxSongs
       /\ VisitMedia(VideoPath(base_dir, Len(songs) + 1), TitleX, AlbumM,
                     <<ArtistA>>, None)
    \/ VisitMediaFail(MediaPath(base_dir, 0))
    \/ VisitCover(base_dir \o << <<"a","r","t">> >>)

GenCover ==
    \/ \E has_cover \in BOOLEAN : GenCoverNone(has_cover)
    \/ GenCoverFound
    \/ GenCoverFail

NextIndex ==
    \/ IndexEntry
    \/ SortLists
    \/ GenCover
    \/ ReturnIndex
    \/ \E bound \in BOOLEAN : StartServer(bound)
    \/ ExitOnErr

SpecIndex == Init /\ [][NextIndex]_vars

---------------------------------------------------------------------------
(* Claims about the whole of Index::index and main, checked under          *)
(* SpecIndex.                                                              *)

\* Index::index has returned Ok(index).
Returned == pc \in {"indexed", "serving"}

\* a comes before b in the order of Strings (byte by byte, a proper prefix
\* first).
LexBefore(a, b) ==
    \E i \in 1..Len(b) :
        /\ i <= Len(a) + 1
        /\ \A j \in 1..(i - 1) : a[j] = b[j]
        /\ i = Len(a) + 1 \/ AsciiOf[a[i]] < AsciiOf[b[i]]

\* list holds every entity of map once, in strictly ascending order of
\* unique_name.
SortedListOf(list, map) ==
    /\ Len(list) = Cardinality(DOMAIN map)
    /\ {list[i] : i \in 1..Len(list)} = DOMAIN map
    /\ \A i \in 1..(Len(list) - 1) :
          LexBefore(map[list[i]].unique_name, map[list[i + 1]].unique_name)

\* C14: when Index::index returns successfully, artist_list holds exactly
\* the entities of the artists map, each once, in strictly ascending order
\* of unique_name, and album_list likewise for the albums map.
C14_ListsSorted ==
    Returned => SortedListOf(artist_list, artists) /\ SortedListOf(album_list, albums)

\* Index::index returned lists of three artists (one with a suffix) and two
\* albums, the artist "b" having been inserted first.
C14_Witness ==
    /\ Returned
    /\ Len(artist_list) = 3
    /\ Len(album_list) = 2
    /\ songs[1].artists[1].name = ArtistB
    /\ artist_list[2] = <<"a","-","1">>

\* The (unique_name, display name) entries of a list of the Index.
Listing(list, map) ==
    [i \in 1..Len(list) |-> <<map[list[i]].unique_name, map[list[i]].name>>]

\* The Song that Song::parse makes of the file of a stored song.
Reparsed(song) ==
    ParsedSong(song.name, song.album.name,
               [i \in 1..Len(song.artists) |-> song.artists[i].name],
               song.track, song.path, base_dir, FILES_URL)

\* The catalog of a run that visits the media files in the order of files.
RECURSIVE InsertAll(_, _, _, _)
InsertAllNext(files, r) == InsertAll(r.artists, r.albums, r.songs, Tail(files))
InsertAll(arts, albs, heap, files) ==
    IF Len(files) = 0 THEN [artists |-> arts, albums |-> albs]
    ELSE InsertAllNext(files, insert_song(arts, albs, heap, Head(files)))

\* The entries of the two lists that a run over files returns.
ListingsOf(catalog) ==
    <<Listing(sort(keys(DOMAIN catalog.artists)), catalog.artists),
      Listing(sort(keys(DOMAIN catalog.albums)), catalog.albums)>>
RunListings(files) == ListingsOf(InsertAll(<< >>, << >>, << >>, files))

\* The media files of this run, visited in another order.
Reordered(perm) == [i \in 1..Len(songs) |-> Reparsed(songs[perm[i]])]

\* Every run over the media files of this run, in whatever order, returns
\* the lists this run returned.
SameListsInEveryOrder ==
    \A perm \in Permutations(1..Len(songs)) :
        RunListings(Reordered(perm)) =
            <<Listing(artist_list, artists), Listing(album_list, albums)>>

\* No two artist names and no two album names of the media files have the
\* same slug.
ArtistNamesFound ==
    UNION {{songs[id].artists[i].name : i \in 1..Len(songs[id].artists)} :
              id \in 1..Len(songs)}
AlbumNamesFound == {songs[id].album.name : id \in 1..Len(songs)}
NoSharedSlug ==
    /\ \A a, b \in ArtistNamesFound : sanitize(a) = sanitize(b) => a = b
    /\ \A a, b \in AlbumNamesFound : sanitize(a) = sanitize(b) => a = b

\* C15 as stated: two runs over the same media files visited in different
\* orders return the same (unique_name, display name) entries in
\* artist_list and in album_list.
C15_Original == Returned => SameListsInEveryOrder

\* C15 (amended): two runs over the same media files visited in different
\* orders return the same entries in artist_list and in album_list provided
\* no two distinct artist names and no two distinct album names of the files
\* have the same slug.
C15_SameListsWithoutCollision ==
    (Returned /\ NoSharedSlug) => SameListsInEveryOrder

\* A run returned the artists "a" and "b", found in the order "b", "a", and
\* no two names share a slug.
C15_Witness ==
    /\ Returned
    /\ NoSharedSlug
    /\ Len(songs) >= 2
    /\ songs[1].artists[1].name = ArtistB
    /\ songs[2].artists[1].name = ArtistA
    /\ Len(artist_list) = 2

\* walked holds a media file whose probe failed.
ProbeFailed == \E i \in 1..Len(walked) : walked[i].kind = "unprobed"

\* C19: when the probe of a media file fails, Index::index returns the Err
\* at that file: no later entry is processed, no Index is returned, the
\* server is not started, and the process exits with a status other than 0.
C19_ProbeFailureAborts ==
    ProbeFailed =>
        /\ walked[Len(walked)].kind = "unprobed"
        /\ pc \in {"failed", "exited"}
        /\ artist_list = << >> /\ album_list = << >>
        /\ pc = "exited" => (exit_code # None /\ exit_code[1] # 0)

\* The process has exited after the probe of the third media file failed.
C19_Witness ==
    /\ ProbeFailed
    /\ pc = "exited"
    /\ exit_code = Some(1)
    /\ Len(songs) = 2

---------------------------------------------------------------------------
(* Claims about the two access paths to the songs of an album, checked     *)
(* under SpecTrack.                                                        *)

\* The song objects that are values of album.songs_by_name.
NamedSongs(album) == {album.songs_by_name[n] : n \in DOMAIN album.songs_by_name}

\* C16: in every catalog state the songs sequence and the songs_by_name map
\* of an album give access to the same song objects: every song held in a
\* slot of songs is the value of songs_by_name under its unique_name, and
\* every value of songs_by_name is held in a slot of songs.
C16_SameSongsBothWays ==
    \A key \in DOMAIN albums :
        /\ \A id \in SlotSongs(albums[key]) :
              /\ songs[id].unique_name \in DOMAIN albums[key].songs_by_name
              /\ albums[key].songs_by_name[songs[id].unique_name] = id
        /\ NamedSongs(albums[key]) \subseteq SlotSongs(albums[key])

---------------------------------------------------------------------------
(* The entity locks taken by the indexing task.  An operation is run as    *)
(* the sequence of the acquisitions and releases it performs, in program   *)
(* order; the catalog is written when the operation begins (no other task  *)
(* runs during indexing).                                                  *)

ArtistLock(key) == <<"artist", key>>
AlbumLock(key) == <<"album", key>>
SongLock(id) == <<"song", id>>

\* lock.read().await / lock.write().await and the drop of the guard.
Acquire(entity, mode) == [op |-> "acquire", entity |-> entity, mode |-> mode]
Release(entity, mode) == [op |-> "release", entity |-> entity, mode |-> mode]
\* A guard that is a temporary of one statement or of an if condition.
Locked(entity, mode) == <<Acquire(entity, mode), Release(entity, mode)>>

\* The loop of get_or_insert_artist (559-571): borrowed (564) is held to
\* the return of 566 or to the end of the iteration.
RECURSIVE ProbeArtistLocks(_, _, _, _, _)
ProbeArtistLocks(arts, unique_name, name, index, found_name) ==
    IF found_name \in DOMAIN arts
    THEN Locked(ArtistLock(found_name), "read")
         \o (IF arts[found_name].name = name THEN << >>
             ELSE ProbeArtistLocks(arts, unique_name, name, index + 1,
                                   Suffixed(unique_name, index + 1)))
    ELSE << >>

\* get_or_insert_artist (547-573): borrowed (552) is held to the return of
\* 554 or 566, or to the end of the if block.
ArtistLocks(arts, name, unique_name) ==
    IF unique_name \in DOMAIN arts
    THEN <<Acquire(ArtistLock(unique_name), "read")>>
         \o (IF arts[unique_name].name = name THEN << >>
             ELSE ProbeArtistLocks(arts, unique_name, name, 1,
                                   Suffixed(unique_name, 1)))
         \o <<Release(ArtistLock(unique_name), "read")>>
    ELSE << >>

\* "for artist in song.artists.iter_mut()" (392-394).
RECURSIVE ResolveArtistsLocks(_, _)
ResolveArtistsLocks(arts, todo) ==
    IF Len(todo) = 0 THEN << >>
    ELSE ArtistLocks(arts, Head(todo).name, sanitize(Head(todo).name))
         \o ResolveArtistsLocks(get_or_insert_artist(arts, Head(todo).name).artists,
                                Tail(todo))

\* "for artist_ref in artists" on an album found (461-477, 491-507).
RECURSIVE AttachArtistsLocks(_, _, _)
AttachArtistsLocks(albs, key, artist_refs) ==
    IF Len(artist_refs) = 0 THEN << >>
    ELSE Locked(AlbumLock(key), "read")
         \o (IF ~HasArtist(albs[key], Head(artist_refs).unique_name)
             THEN Locked(AlbumLock(key), "write")
                  \o Locked(ArtistLock(Head(artist_refs).unique_name), "write")
                  \o AttachArtistsLocks(
                         [albs EXCEPT ![key].artists = Append(@, Head(artist_refs))],
                         key, Tail(artist_refs))
             ELSE AttachArtistsLocks(albs, key, Tail(artist_refs)))

\* "for artist_ref in artists" on a new album (531-539).
RECURSIVE LinkArtistsLocks(_)
LinkArtistsLocks(artist_refs) ==
    IF Len(artist_refs) = 0 THEN << >>
    ELSE Locked(ArtistLock(Head(artist_refs).unique_name), "write")
         \o LinkArtistsLocks(Tail(artist_refs))

\* The loop of get_or_insert_album (484-514) and the insertion (518-539).
RECURSIVE ProbeAlbumLocks(_, _, _, _, _, _)
ProbeAlbumLocks(albs, unique_name, name, artist_refs, index, found_name) ==
    IF found_name \in DOMAIN albs
    THEN Locked(AlbumLock(found_name), "read")
         \o (IF albs[found_name].name = name
             THEN AttachArtistsLocks(albs, found_name, artist_refs)
             ELSE ProbeAlbumLocks(albs, unique_name, name, artist_refs, index + 1,
                                  Suffixed(unique_name, index + 1)))
    ELSE LinkArtistsLocks(artist_refs)

\* get_or_insert_album (452-541): every guard is a temporary.
AlbumLocks(albs, name, artist_refs, unique_name) ==
    IF unique_name \in DOMAIN albs
    THEN Locked(AlbumLock(unique_name), "read")
         \o (IF albs[unique_name].name = name
             THEN AttachArtistsLocks(albs, unique_name, artist_refs)
             ELSE ProbeAlbumLocks(albs, unique_name, name, artist_refs, 1,
                                  Suffixed(unique_name, 1)))
    ELSE LinkArtistsLocks(artist_refs)

\* insert_song from 407 on, and line 255 of the walk: song is the Song
\* stored, id its object, album the album before the song is placed.
PlaceSongLocks(album, song, id) ==
    Locked(AlbumLock(album.unique_name), "read")
    \o Locked(AlbumLock(album.unique_name), "read")
    \o (IF song.track # None
        THEN Locked(AlbumLock(album.unique_name), "write")
             \o Locked(AlbumLock(album.unique_name), "read")
             \o (IF Len(album.songs) <= song.track[1] - 1
                 THEN Locked(AlbumLock(album.unique_name), "write") ELSE << >>)
        ELSE << >>)
    \o Locked(AlbumLock(album.unique_name), "write")
    \o Locked(AlbumLock(album.unique_name), "write")
    \o Locked(SongLock(id), "read")

\* Lines 396-443 and 255, r being the result of the loop over song.artists
\* and g the result of get_or_insert_album.
SongLocksInAlbum(heap, song, g) ==
    PlaceSongLocks(g.albums[g.key], song, Len(heap) + 1)
SongLocksResolved(albs, heap, song, r) ==
    AlbumLocks(albs, song.album.name, r.refs, sanitize(song.album.name))
    \o SongLocksInAlbum(heap, song,
                        get_or_insert_album(r.artists, albs, song.album.name,
                                            r.refs, parent(song.path)[1]))

\* The locks of insert_song(song) and of line 255.
InsertSongLocks(arts, albs, heap, song) ==
    ResolveArtistsLocks(arts, song.artists)
    \o SongLocksResolved(albs, heap, song,
                         ResolveArtists(arts, song.artists, << >>))

\* "for song in album.songs.iter()" of insert_cover (601-605).
RECURSIVE CoverSongLocks(_)
CoverSongLocks(slots) ==
    IF Len(slots) = 0 THEN << >>
    ELSE (IF Head(slots) # None
          THEN Locked(SongLock(Head(slots)[1]), "write") ELSE << >>)
         \o CoverSongLocks(Tail(slots))

\* Lines 287-294 (and 267-274): the album is locked for writing, and
\* insert_cover runs under that guard.
CoverLocks(album, path) ==
    <<Acquire(AlbumLock(album.unique_name), "write")>>
    \o (IF rate_cover(path) > album.cover_rating
        THEN CoverSongLocks(album.songs) ELSE << >>)
    \o <<Release(AlbumLock(album.unique_name), "write")>>

\* The entities that a set of guards locks, and those it locks for writing.
Entities(guards) == {g.entity : g \in guards}
WriteLocked(guards) == {g.entity : g \in {h \in guards : h.mode = "write"}}
AllGuards == UNION {held[t] : t \in Tasks}
OthersGuards(task) == UNION {held[t] : t \in Tasks \ {task}}

\* tokio RwLock: a read guard is given when no write guard is out, a
\* write guard when no guard is out, the guards of the task that asks
\* included.
CanAcquire(task, event) ==
    IF event.mode = "read"
    THEN event.entity \notin WriteLocked(AllGuards)
    ELSE event.entity \notin Entities(AllGuards)

\* The next acquisition or release of a task.
LockStep(task) ==
    /\ Len(lock_events[task]) > 0
    /\ \E event \in {Head(lock_events[task])} :
          /\ event.op = "acquire" => CanAcquire(task, event)
          /\ held' = [held EXCEPT ![task] =
                        IF event.op = "acquire"
                        THEN @ \cup {[entity |-> event.entity, mode |-> event.mode]}
                        ELSE @ \ {[entity |-> event.entity, mode |-> event.mode]}]
    /\ lock_events' = [lock_events EXCEPT ![task] = Tail(@)]
    /\ UNCHANGED <<artists, albums, songs, resolved, rate_vars, walk_vars,
                   list_vars, handling>>

\* The indexing task is between two operations.
IndexerIdle == lock_events[Indexer] = << >>

\* insert_song and line 255 for the next media file (250-255).
LockedSong(title, album, artist_names, track, dir) ==
    /\ IndexerIdle
    /\ InsertSongCall(title, album, artist_names, track, dir)
    /\ UNCHANGED <<held, handling>>
    /\ lock_events' = [lock_events EXCEPT ![Indexer] =
           InsertSongLocks(artists, albums, songs,
                           ParsedSong(title, album, artist_names, track,
                                      SongPath(dir, Len(songs) + 1),
                                      base_dir, FILES_URL))]

\* A cover file found after a song of its directory (287-294).
LockedCover(key, path) ==
    /\ IndexerIdle
    /\ InsertCoverCall(key, path)
    /\ UNCHANGED <<held, handling>>
    /\ lock_events' = [lock_events EXCEPT ![Indexer] = CoverLocks(albums[key], path)]

\* Media files of one album and of two artists of one slug, and a cover
\* file, with every acquisition and release of the indexing task.
LockedEntry ==
    \/ \E track \in {None, Some(1)}, artist \in {ArtistA, ArtistAUpper} :
          LockedSong(TitleX, AlbumM, <<artist>>, track, DirD)
    \/ \E key \in DOMAIN albums :
          LockedCover(key, base_dir \o <<DirD, <<"a","r","t">> >>)

NextLock == LockedEntry \/ LockStep(Indexer)

SpecLock == Init /\ [][NextLock]_vars

---------------------------------------------------------------------------
(* Claims about the locks of the indexing task, checked under SpecLock.    *)

\* C17: during indexing the indexing task never holds a lock on one entity
\* while it acquires or holds a lock on another entity: at every step it
\* holds the locks of at most one entity.
C17_OneEntityLocked == Cardinality(Entities(held[Indexer])) <= 1

---------------------------------------------------------------------------
(* The request handlers (index.rs 831-902) and the conversions to JSON.    *)

\* Mutant: from_album locks the songs for writing.
RECURSIVE SongRefLocksWriting(_)
SongRefLocksWriting(slots) ==
    IF Len(slots) = 0 THEN << >>
    ELSE (IF Head(slots) # None
          THEN Locked(SongLock(Head(slots)[1]), "write") ELSE << >>)
         \o SongRefLocksWriting(Tail(slots))

\* AlbumJson::from_album (945-958): a read guard on each song of songs.
RECURSIVE SongRefLocks(_)
SongRefLocks(slots) ==
    IF Len(slots) = 0 THEN << >>
    ELSE (IF Head(slots) # None
          THEN Locked(SongLock(Head(slots)[1]), "read") ELSE << >>)
         \o SongRefLocks(Tail(slots))

\* An album is read-locked and converted by from_album (835-836, 862-867).
AlbumJsonLocks(album) ==
    <<Acquire(AlbumLock(album.unique_name), "read")>>
    \o SongRefLocks(album.songs)
    \o <<Release(AlbumLock(album.unique_name), "read")>>

\* ArtistJson::from_artist (976-982): a read guard on each album of the
\* artist, in the order of artist.albums.values().
RECURSIVE AlbumRefLocks(_, _)
AlbumRefLocks(artist, album_keys) ==
    IF Len(album_keys) = 0 THEN << >>
    ELSE Locked(AlbumLock(artist.albums[Head(album_keys)]), "read")
         \o AlbumRefLocks(artist, Tail(album_keys))

\* An artist is read-locked and converted by from_artist (846-847, 878-882).
ArtistJsonLocks(artist) ==
    <<Acquire(ArtistLock(artist.unique_name), "read")>>
    \o AlbumRefLocks(artist, keys(DOMAIN artist.albums))
    \o <<Release(ArtistLock(artist.unique_name), "read")>>

\* get_albums (832-840) and get_artists (843-851).
RECURSIVE get_albums(_, _)
get_albums(albs, list) ==
    IF Len(list) = 0 THEN << >>
    ELSE AlbumJsonLocks(albs[Head(list)]) \o get_albums(albs, Tail(list))
RECURSIVE get_artists(_, _)
get_artists(arts, list) ==
    IF Len(list) = 0 THEN << >>
    ELSE ArtistJsonLocks(arts[Head(list)]) \o get_artists(arts, Tail(list))

\* get_album (854-870), get_artist (873-883) and get_song (886-902): an
\* unknown name is answered with NoSuchResource and no lock is taken.
get_album(albs, album_name) ==
    IF album_name \in DOMAIN albs THEN AlbumJsonLocks(albs[album_name]) ELSE << >>
get_artist(arts, artist_name) ==
    IF artist_name \in DOMAIN arts THEN ArtistJsonLocks(arts[artist_name]) ELSE << >>
get_song(albs, album_name, song_name) ==
    IF album_name \in DOMAIN albs
    THEN <<Acquire(AlbumLock(album_name), "read")>>
         \o (IF song_name \in DOMAIN albs[album_name].songs_by_name
             THEN Locked(SongLock(albs[album_name].songs_by_name[song_name]), "read")
             ELSE << >>)
         \o <<Release(AlbumLock(album_name), "read")>>
    ELSE << >>

\* The requests made: the routes of apply_services (822-829) with the names
\* of an album, an artist and a song, known or not.
Routes == {"albums", "artists", "album", "artist", "song"}
HandlerLocks(route) ==
    CASE route = "albums" -> get_albums(albums, album_list)
      [] route = "artists" -> get_artists(artists, artist_list)
      [] route = "album" -> get_album(albums, sanitize(AlbumM))
      [] route = "artist" -> get_artist(artists, sanitize(ArtistA))
      [] route = "song" -> get_song(albums, sanitize(AlbumM), sanitize(TitleX))

\* A request arrives: the server runs (main.rs 75) and calls the handler.
BeginRequest(request, route) ==
    /\ pc = "serving"
    /\ handling[request] = "idle"
    /\ handling' = [handling EXCEPT ![request] = route]
    /\ lock_events' = [lock_events EXCEPT ![request] = HandlerLocks(route)]
    /\ UNCHANGED <<artists, albums, songs, resolved, rate_vars, walk_vars,
                   list_vars, held>>

\* The handler returns its HttpResponse.
Respond(request) ==
    /\ handling[request] \in Routes
    /\ lock_events[request] = << >>
    /\ handling' = [handling EXCEPT ![request] = "done"]
    /\ UNCHANGED <<artists, albums, songs, resolved, rate_vars, walk_vars,
                   list_vars, lock_events, held>>

\* The process from the walk to the requests: the media files are songs of
\* one album and one artist, in base_dir, and hold no picture.
ServedEntry ==
    \/ VisitOther(base_dir, TRUE)
    \/ /\ Len(songs) < MaxSongs
       /\ VisitMedia(MediaPath(base_dir, Len(songs) + 1), TitleX, AlbumM,
                     <<ArtistA>>, None)

HandleRequest ==
    \/ \E request \in Requests, route \in Routes : BeginRequest(request, route)
    \/ \E request \in Requests : LockStep(request)
    \/ \E request \in Requests : Respond(request)

NextServe ==
    \/ ServedEntry
    \/ SortLists
    \/ GenCoverNone(FALSE)
    \/ ReturnIndex
    \/ StartServer(TRUE)
    \/ HandleRequest

SpecServe == Init /\ [][NextServe]_vars

\* The runtime polls every task that can run: a handler that can take its
\* next step takes it.
SpecServeFair ==
    SpecServe /\ \A request \in Requests :
                    WF_vars(LockStep(request) \/ Respond(request))

---------------------------------------------------------------------------
(* Claims about the requests, checked under SpecServeFair.                 *)

\* The request has been given to its handler and is not answered yet.
Handled(request) == handling[request] \in Routes

\* C18: no request handler reads the catalog before Index::index has
\* returned successfully; once it has returned nothing changes an Artist,
\* an Album or a Song or takes a write lock on one; the handlers take read
\* locks only, so every one of the concurrent requests completes (a request
\* is handled once, so from some point on no request is left unanswered).
C18_ReadOnlyAfterIndexing ==
    /\ [](\A request \in Requests : handling[request] # "idle" => pc = "serving")
    /\ [](Returned => WriteLocked(AllGuards) = {})
    /\ [][Returned => UNCHANGED <<artists, albums, songs, artist_list, album_list>>]_vars
    /\ <>[](\A request \in Requests : ~Handled(request))

\* Two requests hold read guards on the same album at the same time, one of
\* them also on a song.
C18_Witness ==
    /\ pc = "serving"
    /\ Len(songs) >= 2
    /\ AlbumLock(<<"m">>) \in Entities(held[1]) \cap Entities(held[2])
    /\ SongLock(2) \in Entities(held[1])
    /\ handling[1] = "albums"
    /\ handling[2] = "song"

---------------------------------------------------------------------------
(* The pass that generates covers (357-379), after a walk of base_dir      *)
(* whose media files carry track numbers and may hold a picture.           *)

\* The metadata of the media files: album m holds untracked files and
\* files of tracks 1 and 2, two of them on track 1; album M (slug m-1) holds
\* untracked files.
GenFiles ==
    {[album |-> AlbumM, title |-> TitleX, track |-> None],
     [album |-> AlbumM, title |-> TitleX, track |-> Some(1)],
     [album |-> AlbumM, title |-> TitleY, track |-> Some(1)],
     [album |-> AlbumM, title |-> TitleX, track |-> Some(2)],
     [album |-> AlbumMUpper, title |-> TitleX, track |-> None]}
GenEntry ==
    \/ VisitOther(base_dir, TRUE)
    \/ \E file \in GenFiles :
          /\ Len(songs) < MaxFiles
          /\ VisitMedia(MediaPath(base_dir, Len(songs) + 1), file.title,
                        file.album, <<ArtistA>>, file.track)
    \/ \E file \in GenFiles :
          /\ Len(songs) < MaxFiles
          /\ VisitMedia(VideoPath(base_dir, Len(songs) + 1), file.title,
                        file.album, <<ArtistA>>, file.track)
    \/ \E name \in WalkCovers : VisitCover(base_dir \o <<name>>)

NextGen ==
    \/ GenEntry
    \/ SortLists
    \/ GenCover
    \/ ReturnIndex

SpecGen == Init /\ [][NextGen]_vars

---------------------------------------------------------------------------
(* Claims about the generated covers, checked under SpecGen.               *)

\* The songs in the slots of the album key that hold a picture.
FrameSongs(key) == {id \in SlotSongs(albums[key]) : has_frame(songs[id].path)}

\* C21: the pass that generates covers changes nothing of an album that
\* has a cover: its cover_url, its cover_rating and the cover_url of each
\* of its songs stay as they are in every step of the pass.
C21_CoveredAlbumsUntouched ==
    [][pc = "gen_covers" =>
          \A key \in DOMAIN albums :
              albums[key].cover_url # None =>
                  /\ albums'[key].cover_url = albums[key].cover_url
                  /\ albums'[key].cover_rating = albums[key].cover_rating
                  /\ \A id \in AlbumSongs(key) :
                        songs'[id].cover_url = songs[id].cover_url]_vars

\* The pass has gone over an album that has the cover of a cover file and
\* a song with a picture, and is at an album without cover.
C21_Witness ==
    /\ Generating
    /\ gen_index = 2
    /\ albums[album_list[1]].cover_url # None
    /\ albums[album_list[1]].cover_rating \in {1, 101}
    /\ FrameSongs(album_list[1]) # {}
    /\ albums[GenAlbum].cover_url = None

\* The slots of album.songs that hold a song with a picture; the first of
\* them in storage order.
FrameSlots(key) ==
    {i \in 1..Len(albums[key].songs) :
        /\ albums[key].songs[i] # None
        /\ has_frame(songs[albums[key].songs[i][1]].path)}
FirstFrameSong(key) ==
    albums[key].songs[CHOOSE i \in FrameSlots(key) :
                          \A j \in FrameSlots(key) : i <= j][1]

\* The URL of the cover generated from the song id.
GeneratedUrl(id) == find_url(make_cover_path(songs[id].path), base_dir, FILES_URL)

\* The pass completes its step for an album that has no cover.
GeneratesFor(key) ==
    /\ Generating
    /\ key = GenAlbum
    /\ albums[key].cover_url = None
    /\ gen_index' = gen_index + 1

\* C22: for an album without cover, the generated cover comes from the
\* first song of album.songs, in storage order, that yields a picture, and
\* is then the cover_url of the album and of the album's songs (those
\* reachable through songs or through songs_by_name); when no song of the
\* album yields a picture, album and songs keep no cover_url.
C22_GeneratedFromFirstFrame ==
    [][\A key \in DOMAIN albums :
          GeneratesFor(key) =>
              IF FrameSlots(key) # {}
              THEN /\ albums'[key].cover_url = GeneratedUrl(FirstFrameSong(key))
                   /\ \A id \in AlbumSongs(key) :
                         songs'[id].cover_url = albums'[key].cover_url
              ELSE /\ albums'[key].cover_url = None
                   /\ \A id \in AlbumSongs(key) : songs'[id].cover_url = None]_vars

\* C23: a generated cover is inserted with the rating 1, below every cover
\* file whose name earns more than the base score.
C23_GeneratedRatedBaseline ==
    [][\A key \in DOMAIN albums :
          GeneratesFor(key) /\ albums'[key].cover_url # None =>
              albums'[key].cover_rating = 1]_vars

---------------------------------------------------------------------------
(* Song::find_track and the track of the Song that Song::parse builds.     *)

\* A character of the class \d of the regex crate that is no ASCII digit
\* (ARABIC-INDIC DIGIT THREE).
arabic_3 == "arabic_3"
AsciiDigits == {Digit[i] : i \in 1..10}
IsDigit(c) == c \in AsciiDigits \cup {arabic_3}

\* TRACK_INFO_TRACK_PATTERN.captures(track_str), group "track": the
\* leftmost longest run of \d characters.
RECURSIVE SkipToDigit(_)
SkipToDigit(str) ==
    IF Len(str) = 0 THEN str
    ELSE IF IsDigit(Head(str)) THEN str
    ELSE SkipToDigit(Tail(str))
RECURSIVE DigitRun(_)
DigitRun(str) ==
    IF Len(str) = 0 THEN << >>
    ELSE IF IsDigit(Head(str)) THEN <<Head(str)>> \o DigitRun(Tail(str))
    ELSE << >>
captures_track(track_str) ==
    IF Len(SkipToDigit(track_str)) = 0 THEN None
    ELSE Some(DigitRun(SkipToDigit(track_str)))

\* str::parse::<u32>().ok() on a run of \d characters: None when a character
\* is no ASCII digit.  A run of at most MaxTagLen digits fits in 32 bits, so
\* the overflow Err of parse does not occur on the tags of the model.
DigitValue(c) == (CHOOSE i \in 1..10 : Digit[i] = c) - 1
RECURSIVE ParseFrom(_, _)
ParseFrom(str, value) ==
    IF Len(str) = 0 THEN Some(value)
    ELSE IF Head(str) \notin AsciiDigits THEN None
    ELSE ParseFrom(Tail(str), value * 10 + DigitValue(Head(str)))
parse_u32(str) == ParseFrom(str, 0)

\* Lines 189-193 up to the filter: the number found in the value of the
\* track tag of dict (tag is None when the dictionary has no such tag).
tag_number(tag) ==
    IF tag = None THEN None
    ELSE IF captures_track(tag[1]) = None THEN None
    ELSE parse_u32(captures_track(tag[1])[1])

\* Mutant: the parsed number is kept when it is 0.
filter_nothing(t) == t

\* .filter(|t| *t != 0)
filter_nonzero(t) == IF t # None /\ t[1] = 0 THEN None ELSE t

\* find_track(dict)
find_track(tag) == filter_nonzero(tag_number(tag))

\* Song::parse, lines 114-129: the track of the format metadata, or else
\* of the first stream that has one (tags[1] is the tag of the format).
RECURSIVE parse_track(_)
parse_track(tags) ==
    IF Len(tags) = 0 THEN None
    ELSE IF find_track(Head(tags)) # None THEN find_track(Head(tags))
    ELSE parse_track(Tail(tags))

\* The characters of the track tags and the tags of at most MaxTagLen
\* characters; the stream of a file has no track tag or the tag "2".
MaxTagLen == 2
TagChars == {"0", "1", "/", arabic_3}
TagTexts == UNION {[1..n -> TagChars] : n \in 0..MaxTagLen}
FormatTags == {None} \cup {Some(text) : text \in TagTexts}
StreamTags == {None, Some(<<"2">>)}

\* Lines 250-252 for a media file of album m with the given track tags.
ProbeSong(tags) ==
    /\ Len(songs) < MaxFiles
    /\ metadata' = tags
    /\ \E r \in {insert_song(artists, albums, songs,
                             ParsedSong(TitleX, AlbumM, <<ArtistA>>, parse_track(tags),
                                        MediaPath(base_dir, Len(songs) + 1),
                                        base_dir, FILES_URL))} :
          /\ artists' = r.artists
          /\ albums' = r.albums
          /\ songs' = r.songs
    /\ UNCHANGED <<resolved, base_dir, rate_path, rate_value, walk_vars, list_vars,
                   lock_vars>>

NextParse ==
    \E format_tag \in FormatTags, stream_tag \in StreamTags :
        ProbeSong(<<format_tag, stream_tag>>)

SpecParse == Init /\ [][NextParse]_vars

---------------------------------------------------------------------------
(* Claims about the track of a song, checked under SpecParse.              *)

\* The step stores the Song parsed from a media file.
Probed == Len(songs') = Len(songs) + 1

\* The track tags of the file name the track 0 and no other track.
ZeroTrack(tags) ==
    /\ \E i \in 1..Len(tags) : tag_number(tags[i]) = Some(0)
    /\ \A i \in 1..Len(tags) : tag_number(tags[i]) \in {None, Some(0)}

\* The tags without those that name the track 0.
WithoutZero(tags) ==
    [i \in 1..Len(tags) |-> IF tag_number(tags[i]) = Some(0) THEN None ELSE tags[i]]

\* The songs sequence of the album key before the step.
SongsBefore(key) == IF key \in DOMAIN albums THEN albums[key].songs ELSE << >>
TrackedBefore(key) == IF key \in DOMAIN albums THEN albums[key].tracked ELSE FALSE

\* C24: a track of 0 is treated as absent.  No song of the catalog has
\* track Some(0); the song of a file takes the track it would take without
\* the tags that name track 0; and when the tags name track 0 only, the
\* song is stored as an untracked song: appended to the songs of its album,
\* whose tracked flag stays as it was.
C24_ZeroTrackAbsent ==
    /\ [](\A id \in 1..Len(songs) : songs[id].track = None \/ songs[id].track[1] >= 1)
    /\ [][Probed =>
            /\ songs'[Len(songs')].track = parse_track(WithoutZero(metadata'))
            /\ ZeroTrack(metadata') =>
                  /\ songs'[Len(songs')].track = None
                  /\ albums'[<<"m">>].songs =
                        Append(SongsBefore(<<"m">>), Some(Len(songs')))
                  /\ albums'[<<"m">>].tracked = TrackedBefore(<<"m">>)]_vars

\* A file whose format names track 0 has been stored after a song of
\* track 1, in the slot after it.
C24_Witness ==
    /\ Len(songs) = 2
    /\ songs[1].track = Some(1)
    /\ metadata[1] \in {Some(<<"0">>), Some(<<"0", "0">>), Some(<<"0", "/">>)}
    /\ metadata[2] = None
    /\ songs[2].track = None
    /\ albums[<<"m">>].songs = <<Some(1), Some(2)>>
    /\ albums[<<"m">>].tracked

---------------------------------------------------------------------------
(* The walk of a tree with the directories m/d and m/e, whose cover files  *)
(* are art (rating 1), cover and cover 2 (rating 101 both).                *)

PendingDirs == {base_dir \o <<DirD>>, base_dir \o <<DirE>>}
PendingEntry ==
    \/ VisitOther(base_dir, TRUE)
    \/ \E dir \in PendingDirs : VisitOther(dir, TRUE)
    \/ \E dir \in OpenDirs \ {base_dir} :
          VisitMedia(MediaPath(dir, Len(songs) + 1), TitleX, AlbumM, <<ArtistA>>, None)
    \/ \E dir \in OpenDirs \ {base_dir}, name \in CoverFiles : VisitCover(dir \o <<name>>)
    \/ VisitErr

SpecPending == Init /\ [][PendingEntry]_vars

---------------------------------------------------------------------------
(* Claims about the pending covers, checked under SpecPending.             *)

\* The parent of the path visited last (Err entries have no path).
RECURSIVE VisitedBefore(_)
VisitedBefore(i) ==
    IF i = 0 THEN None
    ELSE IF walked[i].kind # "err" THEN parent(walked[i].path)
    ELSE VisitedBefore(i - 1)
LastVisitedParent == VisitedBefore(Len(walked))

\* The covers that are still buffered when the entry is processed.
StillBuffered ==
    IF LastVisitedParent = parent(ThisEntry.path) THEN found_covers ELSE << >>

\* The highest rating among covers, and the first cover that has it.
MaxRating(covers) ==
    IF Len(covers) = 0 THEN 0
    ELSE CHOOSE r \in {rate_cover(covers[i]) : i \in 1..Len(covers)} :
            \A i \in 1..Len(covers) : rate_cover(covers[i]) <= r
FirstBest(covers) ==
    covers[CHOOSE i \in 1..Len(covers) :
              /\ rate_cover(covers[i]) = MaxRating(covers)
              /\ \A j \in 1..(i - 1) : rate_cover(covers[j]) < MaxRating(covers)]

\* The cover of the album key before the step (a new album has none).
RatingBefore(key) == IF key \in DOMAIN albums THEN albums[key].cover_rating ELSE 0
CoverBefore(key) == IF key \in DOMAIN albums THEN albums[key].cover_url ELSE None

\* The album key has taken, one after the other, the covers given.
Attached(key, covers) ==
    /\ IF MaxRating(covers) > RatingBefore(key)
       THEN /\ albums'[key].cover_rating = MaxRating(covers)
            /\ albums'[key].cover_url = find_url(FirstBest(covers), base_dir, FILES_URL)
       ELSE /\ albums'[key].cover_rating = RatingBefore(key)
            /\ albums'[key].cover_url = CoverBefore(key)
    /\ \A id \in SlotSongs(albums'[key]) :
          songs'[id].cover_url = albums'[key].cover_url

\* C25: found_covers keeps no cover of an earlier directory when the parent
\* of the path visited differs from the parent of the path visited before
\* it; when a media file is processed, the covers still buffered are
\* attached, in the order found, to the album of the song just inserted,
\* and found_covers is empty afterwards.
C25_PendingCovers ==
    [][EntryTaken /\ ThisEntry.kind # "err" =>
          /\ LastVisitedParent # parent(ThisEntry.path) =>
                found_covers' \in {<< >>, <<ThisEntry.path>>}
          /\ ThisEntry.kind = "media" =>
                /\ Attached(songs'[Len(songs')].album.unique_name, StillBuffered)
                /\ found_covers' = << >>]_vars

\* cover and cover 2 of the directory m/d, found in this order before the
\* first song of the directory, are no longer pending and cover is the
\* cover of the album.
C25_Witness ==
    /\ Len(walked) >= 3
    /\ walked[Len(walked)].kind = "media"
    /\ walked[Len(walked) - 1].path = base_dir \o <<DirD, <<"c","o","v","e","r"," ","2">> >>
    /\ walked[Len(walked) - 2].path = base_dir \o <<DirD, <<"c","o","v","e","r">> >>
    /\ found_covers = << >>
    /\ albums[<<"m">>].cover_url = find_url(walked[Len(walked) - 2].path, base_dir, FILES_URL)
    /\ songs[Len(songs)].cover_url = albums[<<"m">>].cover_url

---------------------------------------------------------------------------
(* Claims about the catalog as a whole, checked under SpecTrack and        *)
(* SpecAlbum.                                                              *)

\* C26: a song leaves the songs sequence of its album only in a call of
\* insert_song whose song has the same track number: an untracked song,
\* and a tracked song whose track number is not used again, stay in the
\* sequence.
C26_DisplacedBySameTrackOnly ==
    [][\A key \in DOMAIN albums :
          \A id \in SlotSongs(albums[key]) :
              \/ id \in SlotSongs(albums'[key])
              \/ /\ SongInserted
                 /\ songs[id].track # None
                 /\ NewSong.track = songs[id].track]_vars

\* The entries of a map have their unique_name as key, and no two of them
\* have the same display name.
KeyedByUniqueName(map) ==
    /\ \A k \in DOMAIN map : map[k].unique_name = k
    /\ \A k1, k2 \in DOMAIN map : map[k1].name = map[k2].name => k1 = k2

\* The entries of the map before the step are in the map after it, under
\* the same key and with the same names.
EntriesKept(before, after) ==
    \A k \in DOMAIN before :
        /\ k \in DOMAIN after
        /\ after[k].name = before[k].name
        /\ after[k].unique_name = before[k].unique_name

\* C27: every key of index.artists and of index.albums is the unique_name
\* of its entry, no two artists and no two albums have the same display
\* name, and no entry is ever removed or renamed.
C27_KeysAndNames ==
    /\ [](KeyedByUniqueName(artists) /\ KeyedByUniqueName(albums))
    /\ [][EntriesKept(artists, artists') /\ EntriesKept(albums, albums')]_vars

\* Two artists and two albums share a slug, and one of them has been
\* looked up again.
C27_Witness ==
    /\ DOMAIN artists = {<<"a">>, <<"a", "-", "1">>}
    /\ DOMAIN albums = {<<"m">>, <<"m", "-", "1">>}
    /\ {albums[k].name : k \in DOMAIN albums} = {AlbumM, AlbumMUpper}
    /\ Len(songs) = 3

\* C28: the back-references between artists and albums agree in both
\* directions: the albums map of an artist has the key k, mapped to the
\* album of unique_name k, if and only if the artists of the album k hold
\* a reference with the unique_name of the artist.
C28_BackReferences ==
    \A a \in DOMAIN artists :
        /\ \A k \in DOMAIN artists[a].albums :
              /\ artists[a].albums[k] \in DOMAIN albums
              /\ albums[artists[a].albums[k]].unique_name = k
              /\ HasArtist(albums[k], artists[a].unique_name)
        /\ \A k \in DOMAIN albums :
              HasArtist(albums[k], artists[a].unique_name) =>
                  k \in DOMAIN artists[a].albums

\* The album m was created for the artist a and has taken the artist a-1
\* from a later song; the artist a is also an artist of the album m-1.
C28_Witness ==
    /\ <<"m">> \in DOMAIN albums
    /\ <<"m", "-", "1">> \in DOMAIN albums
    /\ [i \in 1..Len(albums[<<"m">>].artists) |-> albums[<<"m">>].artists[i].unique_name]
          = << <<"a">>, <<"a", "-", "1">> >>
    /\ DOMAIN artists[<<"a">>].albums = {<<"m">>, <<"m", "-", "1">>}
    /\ DOMAIN artists[<<"a", "-", "1">>].albums = {<<"m">>}

\* C29: the artists sequence of an album holds no two references with the
\* same unique_name, also when the artist list of one song names an artist
\* twice.
C29_NoDuplicateArtists ==
    \A k \in DOMAIN albums :
        \A i, j \in 1..Len(albums[k].artists) :
            albums[k].artists[i].unique_name = albums[k].artists[j].unique_name
                => i = j

\* C30: every song stored in an album (in songs or in songs_by_name) names
\* that album by its unique_name, and each of its artist references has
\* the unique_name of an artist of index.artists of the same display name,
\* which is among the artists of the album.
C30_SongReferences ==
    \A key \in DOMAIN albums :
        \A id \in AlbumSongs(key) :
            /\ songs[id].album.unique_name = key
            /\ \A i \in 1..Len(songs[id].artists) :
                  /\ songs[id].artists[i].unique_name \in DOMAIN artists
                  /\ artists[songs[id].artists[i].unique_name].name =
                        songs[id].artists[i].name
                  /\ HasArtist(albums[key], songs[id].artists[i].unique_name)

\* The second song of the album m-1 has the artists a and A (a-1); the
\* album was created by a song of the artist a.
C30_Witness ==
    /\ Len(songs) = 2
    /\ songs[1].album.unique_name = <<"m", "-", "1">>
    /\ songs[2].album.unique_name = <<"m", "-", "1">>
    /\ Len(songs[1].artists) = 1
    /\ [i \in 1..Len(songs[2].artists) |-> songs[2].artists[i].unique_name]
          = << <<"a">>, <<"a", "-", "1">> >>
    /\ Len(albums[<<"m", "-", "1">>].artists) = 2

---------------------------------------------------------------------------
(* Claims about the state of the walk, checked under SpecPending and       *)
(* SpecRoot.                                                               *)

\* C31: between two entries of the walk every path of found_covers has
\* previous_parent as its parent, and the covers that a media file flushes
\* lie in the directory of the media file.
C31_PendingInDirectory ==
    /\ [](\A i \in 1..Len(found_covers) : parent(found_covers[i]) = previous_parent)
    /\ [][EntryTaken /\ ThisEntry.kind = "media" =>
            \A i \in 1..Len(StillBuffered) :
                parent(StillBuffered[i]) = parent(ThisEntry.path)]_vars

\* Two covers of the directory m/d are pending, an Err entry was met after
\* them, and before them the walk visited the directory m/e.
C31_Witness ==
    /\ Len(found_covers) = 2
    /\ previous_parent = Some(base_dir \o <<DirD>>)
    /\ walked[Len(walked)].kind = "err"
    /\ \E i \in 1..Len(walked) :
          walked[i].kind # "err" /\ walked[i].path = base_dir \o <<DirE>>

---------------------------------------------------------------------------
(* The walk of a configured base directory that is the music directory or  *)
(* the root of the file system. The patterns come from the configuration   *)
(* (config.rs 24-36): they may match base_dir itself, the first entry.     *)

InitRoot ==
    /\ artists = << >>
    /\ albums = << >>
    /\ songs = << >>
    /\ resolved = << >>
    /\ base_dir \in {RootDir, MusicDir}
    /\ rate_path = << >>
    /\ rate_value = None
    /\ metadata = << >>
    /\ InitWalk

RootEntry ==
    \/ VisitOther(base_dir, TRUE)
    \/ VisitCover(base_dir)
    \/ VisitMediaFail(base_dir)
    \/ VisitOther(base_dir \o <<DirD>>, TRUE)
    \/ \E dir \in {base_dir, base_dir \o <<DirD>>} :
          /\ IsPrefix(dir, walk_dir)
          /\ VisitMedia(MediaPath(dir, Len(songs) + 1), TitleX, AlbumM, <<ArtistA>>, None)
    \/ \E dir \in {base_dir, base_dir \o <<DirD>>}, name \in WalkCovers :
          VisitCover(dir \o <<name>>)
    \/ VisitErr

SpecRoot == InitRoot /\ [][RootEntry]_vars

\* C32: the expect of 283 never fails: a cover file whose parent paths_eq
\* judges equal to previous_song_parent, both absent included, finds
\* previous_album set to the key of an album of the index; and
\* previous_song_parent and previous_album are set or unset together.
C32_CoverAssertionHolds ==
    /\ [](pc # "panicked")
    /\ [][(/\ EntryTaken
           /\ ThisEntry.kind = "cover"
           /\ paths_eq(previous_song_parent, parent(ThisEntry.path)))
          => /\ previous_album # None
             /\ previous_album[1] \in DOMAIN albums]_vars
    /\ []((previous_song_parent = None) <=> (previous_album = None))

---------------------------------------------------------------------------
(* The locks of the whole indexing task: the walk, then the pass that      *)
(* generates covers. Index::index is awaited before the server is built    *)
(* (main.rs 38-48), so that no other task holds a lock meanwhile.          *)

\* gen_cover (631-668): a read guard on each song, up to the first song
\* that has a picture.
RECURSIVE GenSongLocks(_, _, _)
GenSongLocks(album, heap, slot) ==
    IF slot > Len(album.songs) THEN << >>
    ELSE IF album.songs[slot] = None THEN GenSongLocks(album, heap, slot + 1)
    ELSE Locked(SongLock(album.songs[slot][1]), "read")
         \o (IF has_frame(heap[album.songs[slot][1]].path) THEN << >>
             ELSE GenSongLocks(album, heap, slot + 1))

\* Mutant: the read guard of 364 is still held when 368 asks for the write
\* lock of the album.
GenLocksHolding(album, heap) ==
    Locked(AlbumLock(album.unique_name), "read")
    \o (IF album.cover_url = None
        THEN <<Acquire(AlbumLock(album.unique_name), "read")>>
             \o GenSongLocks(album, heap, 1)
             \o (IF gen_cover(album, heap) # None
                 THEN CoverLocks(album, gen_cover(album, heap)[1]) ELSE << >>)
             \o <<Release(AlbumLock(album.unique_name), "read")>>
        ELSE << >>)

\* One iteration of the loop of 360-379: the guard of the condition of 361
\* is dropped before the block, the guard of 364 at the end of the block of
\* 362-366, and 368-375 run insert_cover under the write guard.
GenLocks(album, heap) ==
    Locked(AlbumLock(album.unique_name), "read")
    \o (IF album.cover_url = None
        THEN <<Acquire(AlbumLock(album.unique_name), "read")>>
             \o GenSongLocks(album, heap, 1)
             \o <<Release(AlbumLock(album.unique_name), "read")>>
             \o (IF gen_cover(album, heap) # None
                 THEN CoverLocks(album, gen_cover(album, heap)[1]) ELSE << >>)
        ELSE << >>)

\* What one iteration of the loop of 360-379 makes of the album.
GenCoverCall(key) ==
    IF albums[key].cover_url = None /\ gen_cover(albums[key], songs) # None
    THEN \E r \in {insert_cover(albums[key], songs, gen_cover(albums[key], songs)[1],
                                base_dir, FILES_URL)} :
            /\ albums' = [albums EXCEPT ![key] = r.album]
            /\ songs' = r.songs
    ELSE UNCHANGED <<albums, songs>>

\* The cover generation pass at the album key (360-379).
LockedGen(key) ==
    /\ IndexerIdle
    /\ GenCoverCall(key)
    /\ lock_events' = [lock_events EXCEPT ![Indexer] = GenLocks(albums[key], songs)]
    /\ UNCHANGED <<artists, resolved, rate_vars, walk_vars, list_vars, held, handling>>

\* insert_song and line 255 for a media file that holds a picture.
LockedVideo(title, album, artist_names, track, dir) ==
    /\ IndexerIdle
    /\ Len(songs) < MaxSongs
    /\ \E song \in {ParsedSong(title, album, artist_names, track,
                               VideoPath(base_dir \o <<dir>>, Len(songs) + 1),
                               base_dir, FILES_URL)} :
          /\ \E r \in {insert_song(artists, albums, songs, song)} :
                /\ artists' = r.artists
                /\ albums' = r.albums
                /\ songs' = r.songs
          /\ lock_events' = [lock_events EXCEPT ![Indexer] =
                                InsertSongLocks(artists, albums, songs, song)]
    /\ UNCHANGED <<resolved, rate_vars, walk_vars, list_vars, held, handling>>

\* Tracked media files of one album and of two artists of one slug, an
\* untracked file that holds a picture, a cover file, and the pass.
NextTask ==
    \/ \E artist \in {ArtistA, ArtistAUpper} :
          LockedSong(TitleX, AlbumM, <<artist>>, Some(1), DirD)
    \/ LockedVideo(TitleX, AlbumM, <<ArtistA>>, None, DirD)
    \/ \E key \in DOMAIN albums :
          LockedCover(key, base_dir \o <<DirD, <<"a","r","t">> >>)
    \/ \E key \in DOMAIN albums : LockedGen(key)
    \/ LockStep(Indexer)

\* The indexing task is polled until Index::index returns (main.rs 38-46).
SpecTask == Init /\ [][NextTask]_vars /\ WF_vars(LockStep(Indexer))

---------------------------------------------------------------------------
(* Claims about the locks of the whole indexing task, checked under        *)
(* SpecTask.                                                               *)

\* The acquisition that the indexing task is waiting for.
Requested == Head(lock_events[Indexer])
Requesting == ~IndexerIdle /\ Requested.op = "acquire"
Guard(entity, mode) == [entity |-> entity, mode |-> mode]
\* The entities of the catalog that the files of SpecTask make.
TaskEntities ==
    {ArtistLock(sanitize(ArtistA)), ArtistLock(Suffixed(sanitize(ArtistA), 1)),
     AlbumLock(sanitize(AlbumM))} \cup {SongLock(id) : id \in 1..MaxSongs}

\* C33: the indexing task never asks for the write lock of an entity while
\* it holds a read or write guard of that entity, and every lock it asks
\* for is eventually granted.
C33_NoSelfDeadlock ==
    /\ [](Requesting /\ Requested.mode = "write"
             => Requested.entity \notin Entities(held[Indexer]))
    /\ [](Requesting => Requested.entity \in TaskEntities)
    /\ \A entity \in TaskEntities, mode \in {"read", "write"} :
          (Requesting /\ Requested = Acquire(entity, mode))
              ~> (Guard(entity, mode) \in held[Indexer])

\* The cover generation pass has dropped the read guard of the album and
\* holds its write guard, under which it asks for the write lock of a song.
C33_Witness ==
    /\ Requesting
    /\ Requested.mode = "write"
    /\ Requested.entity[1] = "song"
    /\ held[Indexer] = {[entity |-> AlbumLock(AlbumM), mode |-> "write"]}
    /\ albums[AlbumM].cover_url = GeneratedUrl(Requested.entity[2])

===========================================================================
